---- MODULE Spec2Model ----
(***************************************************************************)
(* The think-cycle controller of anemone-core (Brain::run, think_once,     *)
(* handle_respond, reflect, plan), its inbound command queue and the       *)
(* Provider Adapter's chat call, as one state machine.                     *)
(*                                                                         *)
(* One step of the machine is the code that runs between two suspension    *)
(* points of the Brain task (an await on the provider, on a tool, on the   *)
(* rendezvous or on the pacing sleep), or one try_recv of the drain loop.  *)
(* Front ends act only by sending commands into the queue.                 *)
(***************************************************************************)
EXTENDS Integers, Sequences, FiniteSets, TLC

\* ------------------------------------------------------------------ bounds

\* Config::max_tool_rounds (default 15), fixed small for the check.
max_tool_rounds == 1

\* Config::reflection_threshold (default 50.0), fixed small for the check.
reflection_threshold == 10

\* Config::thinking_pace_seconds (default 45), fixed small for the check.
thinking_pace_seconds == 1

\* Cycles the run loop may start before the model stops following it.
MaxCycles == 11

\* Cycles in which the backend's responses may carry tool calls.
MaxToolCycles == 1

\* Commands the front ends send over one run.
MaxSends == 2

\* Final thoughts (responses with text that end a think phase) over one run.
MaxThoughts == 1

\* ------------------------------------------------------- program constants

PLAN_INTERVAL == 10

CONVERSATION_TIMEOUT_SECS == 15

\* The fixed delay before the retry of a follow-up call, in seconds.
RETRY_DELAY_SECS == 2

None == "None"

\* ------------------------------------------------------------- input sets

Providers == {"openai", "custom"}

\* What one HTTP attempt against the backend yields: a status, or no status
\* at all ("neterr": transport or JSON failure). "400m500" is a 4xx whose
\* body text mentions 500; "400cut" is a 4xx whose body is longer than the
\* logged prefix and has a multi-byte character across the cut.
HttpOutcomes == {"200", "400", "400m500", "400cut", "500", "503", "neterr"}

ToolCallLists == { <<>>, <<"shell">>, <<"respond", "shell">> }

\* What a shell command's combined output is like: "cut" is an output over
\* 3,000 bytes with a multi-byte character across byte 3,000.
ShellOutputs == {"output", "cut"}

ImportanceScores == {5, 10}

InsightCounts == {0, 1}

UserTexts == {"u1", "u2"}

Commands ==
    [kind : {"UserMessage"}, arg : UserTexts]
        \cup [kind : {"ConversationReply"}, arg : {"r1"}]
        \cup [kind : {"SetFocusMode"}, arg : BOOLEAN]
        \cup [kind : {"Snapshot"}, arg : {"s1"}]
        \cup [kind : {"Stop"}, arg : {None}]

BrainStates == {"Idle", "Thinking", "Reflecting", "Planning"}

\* ------------------------------------------------------------------ state

VARIABLES
    provider,            \* Config::provider
    pc,                  \* where the Brain task stands in run()
    running,             \* run(): let mut running
    state,               \* Brain::state
    queue,               \* the mpsc command channel, oldest first
    user_message,        \* Brain::user_message
    focus_mode,          \* Brain::focus_mode
    latest_snapshot,     \* Brain::latest_snapshot
    waiting_for_reply,   \* Brain::waiting_for_reply
    conversation_reply,  \* Brain::conversation_reply: None or Some(sender)
    reply_slot,          \* the value sent through the oneshot channel, if any
    thought_count,       \* Brain::thought_count
    cycles_since_plan,   \* Brain::cycles_since_plan
    importance_sum,      \* MemoryStream::importance_sum
    memories,            \* MemoryStream::memories, by its length
    events,              \* Brain::events, the entries since the phase or round began
    current_response,    \* think_once: current_response
    tool_round,          \* think_once: tool_round
    tc_idx,              \* think_once: index of the for loop over tool_calls
    timer,               \* seconds left of the timed wait the task is in
    statuses,            \* Status broadcasts of the current cycle
    applied,             \* commands received by try_recv in the current drain
    sends,               \* commands sent so far
    cycle,               \* think phases started so far
    chat_calls,          \* providers::chat calls of the tool loop, this cycle
    ok_resps,            \* responses received by the tool loop, this cycle
    attempts,            \* HTTP attempts of the last follow-up step
    failed,              \* a reasoning call of this think phase did not succeed
    executing,           \* tool calls whose handler is running
    round_mark,          \* length of events when the current tool round began
    input_list,          \* think_once: the items pushed on input_list this round
    mem_list,            \* MemoryStream::memories, the records themselves
    next_id,             \* MemoryStream::next_id
    ledger,              \* the characters of the ledger file at MemoryStream::path
    ret,                 \* what the last MemoryStream call returned
    embed_calls,         \* providers::embed calls made so far
    issued,              \* ids given out by add since the ledger was created
    event_tx,            \* Brain::event_tx: values sent into the broadcast channel
    rx,                  \* a subscriber's broadcast::Receiver, or None
    rx_out,              \* what the subscriber's last recv() returned
    tool_command,        \* run_command: the command it was called with
    spawned,             \* run_command: the commands handed to `sh -c`
    result,              \* run_command: what it returned
    answers,             \* what the backend answers to the attempts of a chat call
    posted,              \* providers::chat: the bodies it has posted
    slept,               \* providers::chat: the seconds it has slept
    chat_ret,            \* providers::chat: what it returned
    consecutive_research_cycles, \* Brain::consecutive_research_cycles
    cycle_obs,           \* think_once: the calls of the last cycle, and its new files
    nudge,               \* build_continue_nudge: the research part it last built
    transcript,          \* Brain::events, every entry since the start
    event_log,           \* the values sent on Brain::event_tx, in order
    position,            \* Brain::position
    move_ret,            \* handle_move: what it returned last
    brain_lock,          \* the tokio RwLock around the Brain: its guards
    run_task,            \* where the spawned task that calls Brain::run stands
    handlers,            \* where each front-end message handler stands
    shutdown,            \* where the web server's shutdown future stands
    env_files,           \* the files under Brain::env_path
    seen_env_files,      \* Brain::seen_env_files
    inbox_pending,       \* Brain::inbox_pending, by file name
    pre_tool_files,      \* think_once: pre_tool_files of the running tool call
    first_prompt,        \* build_input: the user item of the last first request
    alerted,             \* per file, the Alert broadcasts made for it
    shown                \* per file, the inbox overrides that named it

vars ==
    << provider, pc, running, state, queue, user_message, focus_mode,
       latest_snapshot, waiting_for_reply, conversation_reply, reply_slot,
       thought_count, cycles_since_plan, importance_sum, memories, events,
       current_response, tool_round, tc_idx, timer, statuses, applied, sends,
       cycle, chat_calls, ok_resps, attempts, failed, executing, round_mark,
       input_list, mem_list, next_id, ledger, ret, embed_calls, issued,
       event_tx, rx, rx_out, tool_command, spawned, result,
       answers, posted, slept, chat_ret,
       consecutive_research_cycles, cycle_obs, nudge,
       transcript, event_log, position, move_ret,
       brain_lock, run_task, handlers, shutdown,
       env_files, seen_env_files, inbox_pending, pre_tool_files, first_prompt,
       alerted, shown >>

cmdVars == << user_message, focus_mode, latest_snapshot >>
rendezvousVars == << waiting_for_reply, conversation_reply, reply_slot >>
memVars == << importance_sum, memories >>
thinkVars ==
    << current_response, tool_round, tc_idx, chat_calls, ok_resps, attempts,
       executing, round_mark, input_list >>
ctlVars == << provider, running, queue, applied, sends, cycle >>
streamVars == << mem_list, next_id, ledger, ret, embed_calls, issued >>
channelVars == << event_tx, rx, rx_out >>
shellVars == << tool_command, spawned, result >>
adapterVars == << answers, posted, slept, chat_ret >>
researchVars == << consecutive_research_cycles, cycle_obs, nudge >>
transcriptVars == << transcript, event_log >>
moveVars == << position, move_ret >>
frontVars == << brain_lock, run_task, handlers, shutdown >>
inboxVars ==
    << env_files, seen_env_files, inbox_pending, pre_tool_files, first_prompt,
       alerted, shown >>
lateVars == << frontVars, inboxVars >>
sideVars == << researchVars, transcriptVars, moveVars, lateVars >>
storeVars == << streamVars, channelVars, shellVars, adapterVars, sideVars >>

NoResponse == [text |-> FALSE, tool_calls |-> <<>>]

\* No receiver subscribed; no recv() has returned yet.
NoReceiver == [kind |-> None, next |-> 0, missed |-> 0]
NoOutcome == [tag |-> None, n |-> 0]

\* No call on the stream has returned yet. A return value is the call's
\* name, the positions in the list of the memories it returns, and for add
\* the first number in the scoring call's text (-1: none).
NoQuery == [tag |-> None, emb |-> <<>>]

NoResult == [tag |-> None, msg |-> <<>>, text |-> <<>>, marker |-> FALSE]

\* No call of the shell tool is under way.
InitNoCommand ==
    /\ tool_command = <<>>
    /\ spawned = <<>>
    /\ result = NoResult

\* No call of providers::chat has returned, and none is under way.
NoChat == [ok |-> FALSE, has500 |-> FALSE, attempts |-> 0, panic |-> FALSE]
InitNoChat ==
    /\ answers = <<>>
    /\ posted = <<>>
    /\ slept = 0
    /\ chat_ret = NoChat

\* No think cycle has been followed for its research calls.
NoCycle == [calls |-> <<>>, created |-> FALSE]
InitNoResearch ==
    /\ consecutive_research_cycles = 0
    /\ cycle_obs = NoCycle
    /\ nudge = None

\* The transcript is not followed.
InitNoTranscript ==
    /\ transcript = <<>>
    /\ event_log = <<>>

\* The stream, the channel, the shell tool and the adapter at rest.
InitStores ==
    /\ mem_list = <<>>
    /\ next_id = 0
    /\ ledger = <<>>
    /\ ret = [tag |-> "new", list |-> <<>>, number |-> -1,
              query |-> [tag |-> None, emb |-> <<>>], top_k |-> 0, at |-> 0]
    /\ embed_calls = 0
    /\ issued = <<>>
    /\ event_tx = 0
    /\ rx = NoReceiver
    /\ rx_out = NoOutcome
    /\ InitNoCommand
    /\ InitNoChat

\* `position: Position { x: 5, y: 5 }`; no move tool call has returned.
Position(x, y) == [x |-> x, y |-> y]
NoMove == [tag |-> None, location |-> ""]
InitNoMove ==
    /\ position = Position(5, 5)
    /\ move_ret = NoMove

\* The front ends that take a message for an agent: POST /api/message of the
\* web server and the input line of the TUI.
Handlers == {"post_message", "send_message"}

\* No request is being handled.
NoRequest == [at |-> "idle", text |-> ""]

\* `Arc::new(RwLock::new(brain))`: no guard is out; the task that will call
\* run() was spawned and sleeps; no Ctrl+C yet.
FreeLock == [writer |-> FALSE, readers |-> {}]
InitNoFront ==
    /\ brain_lock = FreeLock
    /\ run_task = "delay"
    /\ handlers = [h \in Handlers |-> NoRequest]
    /\ shutdown = "idle"

\* The file the owner may place, the file a tool call of the agent writes, the
\* files plan() writes, the ledger of the memory stream and the identity file
\* the agent was created with.
OwnerFiles == {"gift.txt"}
ToolFiles == {"out.txt"}
PlanFiles == {"projects.md", "logs/day.md"}
StreamFiles == {"memory_stream.jsonl"}
IdentityFiles == {"identity.json"}
AgentFiles == ToolFiles \cup PlanFiles \cup StreamFiles \cup IdentityFiles
Files == OwnerFiles \cup AgentFiles

\* No first request has been built yet.
NoPrompt == [voice |-> <<>>, inbox |-> {}]

\* `seen_env_files: HashSet::new()`, `inbox_pending: Vec::new()`, an empty
\* directory.
InitNoInbox ==
    /\ env_files = {}
    /\ seen_env_files = {}
    /\ inbox_pending = {}
    /\ pre_tool_files = {}
    /\ first_prompt = NoPrompt
    /\ alerted = [f \in Files |-> 0]
    /\ shown = [f \in Files |-> 0]

InitNoLate ==
    /\ InitNoFront
    /\ InitNoInbox

InitNoSide ==
    /\ InitNoResearch
    /\ InitNoTranscript
    /\ InitNoMove
    /\ InitNoLate

NoRet ==
    [tag |-> "new", list |-> <<>>, number |-> -1, query |-> NoQuery,
     top_k |-> 0, at |-> 0]

\* --------------------------------------------------------- Provider Adapter

uses_responses_api(p) == p = "openai"

ChatResult(ok, has500, attempts_, panic) ==
    [ok |-> ok, has500 |-> has500, attempts |-> attempts_, panic |-> panic]

\* `&body[..body.len().min(n)]` on the error body: a byte slice that panics
\* when the cut is not on a character boundary.
BodyPrefixPanics(o) == o = "400cut"

\* One call of the structured protocol: a single HTTP attempt; the error
\* text is "OpenAI API HTTP <status> - <body prefix>".
chat_responses(o1) ==
    IF o1 = "200" THEN ChatResult(TRUE, FALSE, 1, FALSE)
    ELSE IF o1 = "neterr" THEN ChatResult(FALSE, FALSE, 1, FALSE)
    ELSE IF BodyPrefixPanics(o1) THEN ChatResult(FALSE, FALSE, 1, TRUE)
    ELSE ChatResult(FALSE, o1 \in {"500", "400m500"}, 1, FALSE)

\* The status that makes chat_completions try a second time.
RetriedStatus(o) == o = "500"

\* One call of the conversational protocol: a second attempt after HTTP 500,
\* whose failure reads "API call failed after retry: HTTP <status>"; any
\* other failure reads "API call failed: HTTP <status> - <body prefix>".
chat_completions(o1, o2) ==
    IF o1 = "200" THEN ChatResult(TRUE, FALSE, 1, FALSE)
    ELSE IF o1 = "neterr" THEN ChatResult(FALSE, FALSE, 1, FALSE)
    ELSE IF BodyPrefixPanics(o1) THEN ChatResult(FALSE, FALSE, 1, TRUE)
    ELSE IF RetriedStatus(o1)
    THEN IF o2 = "200" THEN ChatResult(TRUE, FALSE, 2, FALSE)
         ELSE IF o2 = "neterr" THEN ChatResult(FALSE, FALSE, 2, FALSE)
         ELSE ChatResult(FALSE, o2 = "500", 2, FALSE)
    ELSE ChatResult(FALSE, o1 = "400m500", 1, FALSE)

chat(p, o1, o2) ==
    IF uses_responses_api(p) THEN chat_responses(o1) ELSE chat_completions(o1, o2)

\* What the second HTTP attempt of a call may yield, when there is one.
SecondAttempt(p, o1) ==
    IF ~uses_responses_api(p) /\ RetriedStatus(o1) THEN HttpOutcomes ELSE {None}

\* The responses the backend may return in the current cycle.
Responses ==
    [ text : IF thought_count < MaxThoughts THEN BOOLEAN ELSE {FALSE},
      tool_calls : IF cycle <= MaxToolCycles THEN ToolCallLists ELSE {<<>>} ]

\* ------------------------------------------------------------ event helpers

Entry(type, tool, output) == << type, tool, output >>

emit(type) == Append(events, Entry(type, "", ""))

set_state(s) ==
    /\ state' = s
    /\ statuses' = Append(statuses, s)

\* ------------------------------------------------------------- front ends

\* A command in the channel, with its arrival number.
Sent(c, n) == [kind |-> c.kind, arg |-> c.arg, seq |-> n]

\* A front end (or any holder of command_sender()) sends a command.
Send ==
    /\ pc \notin {"done", "panicked"}
    /\ UNCHANGED storeVars
    /\ sends < MaxSends
    /\ \E c \in Commands : queue' = Append(queue, Sent(c, sends + 1))
    /\ sends' = sends + 1
    /\ UNCHANGED << provider, pc, running, state, cmdVars, rendezvousVars,
                    thought_count, cycles_since_plan, memVars, events,
                    timer, statuses, applied, cycle, thinkVars, failed >>

\* The time of the wait the task is in (pacing sleep, retry delay,
\* rendezvous timeout) runs out.
Tick ==
    /\ timer > 0
    /\ UNCHANGED storeVars
    /\ timer' = 0
    /\ UNCHANGED << ctlVars, pc, state, statuses, cmdVars, rendezvousVars,
                    thought_count, cycles_since_plan, memVars, events,
                    thinkVars, failed >>

\* ---------------------------------------------------------------- Brain::run

\* Brain::new, the fields of the Brain task.
\* Brain::new and the locals of run, but for the focus switch.
InitFields ==
    /\ provider \in Providers
    /\ pc = "drain"
    /\ running = TRUE
    /\ state = "Idle"
    /\ queue = <<>>
    /\ user_message = None
    /\ latest_snapshot = None
    /\ waiting_for_reply = FALSE
    /\ conversation_reply = None
    /\ reply_slot = None
    /\ thought_count = 0
    /\ cycles_since_plan = 0
    /\ importance_sum = 0
    /\ memories = 0
    /\ events = <<>>
    /\ current_response = NoResponse
    /\ tool_round = 0
    /\ tc_idx = 0
    /\ timer = 0
    /\ statuses = <<>>
    /\ applied = <<>>
    /\ sends = 0
    /\ cycle = 0
    /\ chat_calls = 0
    /\ ok_resps = 0
    /\ attempts = 0
    /\ failed = FALSE
    /\ executing = {}
    /\ round_mark = 0
    /\ input_list = <<>>

InitTask ==
    /\ InitFields
    /\ focus_mode = FALSE

Init ==
    /\ InitTask
    /\ mem_list = <<>>
    /\ next_id = 0
    /\ ledger = <<>>
    /\ ret = NoRet
    /\ embed_calls = 0
    /\ issued = <<>>
    /\ event_tx = 0
    /\ rx = NoReceiver
    /\ rx_out = NoOutcome
    /\ InitNoCommand
    /\ InitNoChat
    /\ InitNoSide

\* think_once returns: its locals are gone.
ThinkOnceReturns ==
    /\ current_response' = NoResponse
    /\ tool_round' = 0
    /\ tc_idx' = 0
    /\ chat_calls' = 0
    /\ ok_resps' = 0
    /\ attempts' = 0
    /\ executing' = {}
    /\ round_mark' = 0
    /\ input_list' = <<>>

\* A panic unwinds the Brain task: the task ends where it stands, the
\* locals of the call in progress dropped.
Panicked ==
    /\ pc' = "panicked"
    /\ timer' = 0
    /\ ThinkOnceReturns

\* Receiver::try_recv on a channel that is not empty: the oldest command.
\* (try_recv_lifo: the newest command instead.)
try_recv_lifo(q) == [cmd |-> q[Len(q)], rest |-> SubSeq(q, 1, Len(q) - 1)]
try_recv(q) == [cmd |-> Head(q), rest |-> Tail(q)]

\* `if let Some(tx) = self.conversation_reply.take()`: the reply goes to the
\* rendezvous only when a handle is stored.
\* (DeliversAlways: the reply is kept even with no handle stored.)
DeliversAlways(cmd) == cmd.kind = "ConversationReply"
Delivers(cmd) == cmd.kind = "ConversationReply" /\ conversation_reply # None

\* One iteration of `while let Ok(cmd) = command_rx.try_recv()`.
DrainCmd ==
    /\ pc = "drain"
    /\ UNCHANGED storeVars
    /\ queue # <<>>
    /\ LET cmd == try_recv(queue).cmd IN
        /\ queue' = try_recv(queue).rest
        /\ applied' = Append(applied, cmd)
        /\ user_message' = IF cmd.kind = "UserMessage" THEN cmd.arg ELSE user_message
        /\ focus_mode' = IF cmd.kind = "SetFocusMode" THEN cmd.arg ELSE focus_mode
        /\ latest_snapshot' = IF cmd.kind = "Snapshot" THEN cmd.arg ELSE latest_snapshot
        /\ IF Delivers(cmd)
           THEN /\ conversation_reply' = None
                /\ reply_slot' = cmd.arg
           ELSE UNCHANGED << conversation_reply, reply_slot >>
        /\ IF cmd.kind = "Stop"
           THEN /\ running' = FALSE
                /\ pc' = "done"
                /\ state' = "Idle"
           ELSE UNCHANGED << running, pc, state >>
    /\ UNCHANGED << provider, waiting_for_reply, thought_count, cycles_since_plan,
                    memVars, events, timer, statuses, sends, cycle, thinkVars,
                    failed >>

\* try_recv finds the queue empty: the loop body goes on into think_once, up
\* to its first reasoning call.
DrainEmpty ==
    /\ pc = "drain"
    /\ UNCHANGED storeVars
    /\ queue = <<>>
    /\ set_state("Thinking")
    /\ user_message' = None
    /\ cycle' = cycle + 1
    /\ applied' = <<>>
    /\ pc' = "chat_first"
    /\ UNCHANGED << provider, running, queue, focus_mode, latest_snapshot,
                    rendezvousVars, thought_count, cycles_since_plan, memVars,
                    events, timer, sends, thinkVars, failed >>

\* ------------------------------------------------------ Brain::think_once

\* The first reasoning call returns.
ChatFirst ==
    /\ pc = "chat_first"
    /\ UNCHANGED storeVars
    /\ \E o1 \in HttpOutcomes : \E o2 \in SecondAttempt(provider, o1) :
        LET r == chat(provider, o1, o2) IN
        IF r.panic
        THEN /\ Panicked
             /\ failed' = TRUE
             /\ UNCHANGED events
        ELSE IF r.ok
        THEN /\ \E resp \in Responses : current_response' = resp
             /\ chat_calls' = 1
             /\ ok_resps' = 1
             /\ tool_round' = 0
             /\ pc' = "loop_head"
             /\ UNCHANGED << tc_idx, attempts, executing, round_mark,
                             input_list, events, timer, failed >>
        ELSE /\ events' = emit("error")
             /\ failed' = TRUE
             /\ pc' = "reflect_check"
             /\ UNCHANGED << thinkVars, timer >>
    /\ UNCHANGED << ctlVars, state, statuses, cmdVars, rendezvousVars,
                    thought_count, cycles_since_plan, memVars >>

\* `if tool_round > max_rounds` (RoundLimitOffByOne: one round more).
RoundLimitOffByOne(tr) == tr > max_tool_rounds + 1
RoundLimitHit(tr) == tr > max_tool_rounds

\* `while !current_response.tool_calls.is_empty()`, the round counter and the
\* thought that opens a round. The event window restarts with the round.
LoopHead ==
    /\ pc = "loop_head"
    /\ UNCHANGED storeVars
    /\ IF current_response.tool_calls = <<>>
       THEN /\ pc' = "post_loop"
            /\ UNCHANGED << tool_round, tc_idx, events, round_mark, input_list >>
       ELSE /\ tool_round' = tool_round + 1
            /\ IF RoundLimitHit(tool_round + 1)
               THEN /\ pc' = "post_loop"
                    /\ UNCHANGED << tc_idx, events, round_mark, input_list >>
               ELSE /\ events' = IF current_response.text
                                 THEN << Entry("thought", "", "") >> ELSE <<>>
                    /\ round_mark' = Len(events')
                    /\ input_list' = <<>>
                    /\ tc_idx' = 1
                    /\ pc' = "tool_start"
    /\ attempts' = 0
    /\ UNCHANGED << ctlVars, state, statuses, cmdVars, rendezvousVars,
                    thought_count, cycles_since_plan, memVars, current_response,
                    timer, chat_calls, ok_resps, failed, executing >>

\* The call the for loop handles at its i-th iteration.
\* (CallAtReversed: the calls taken last first.)
CallAtReversed(calls, i) == calls[Len(calls) + 1 - i]
CallAt(calls, i) == calls[i]

\* handle_respond up to its wait: the flag and the handle are set together.
OpenRendezvous ==
    /\ waiting_for_reply' = TRUE
    /\ conversation_reply' = "Some"
    /\ reply_slot' = None
    /\ timer' = CONVERSATION_TIMEOUT_SECS

\* handle_respond after its wait (CloseRendezvousKeepsHandle: the handle is
\* left stored).
CloseRendezvousKeepsHandle ==
    /\ waiting_for_reply' = FALSE
    /\ conversation_reply' = conversation_reply
    /\ reply_slot' = None
    /\ timer' = 0
CloseRendezvous ==
    /\ waiting_for_reply' = FALSE
    /\ conversation_reply' = None
    /\ reply_slot' = None
    /\ timer' = 0

\* `for tc in &current_response.tool_calls`: the tool_call event, then the
\* handler starts.
ToolStart ==
    /\ pc = "tool_start"
    /\ UNCHANGED storeVars
    /\ LET tc == CallAt(current_response.tool_calls, tc_idx) IN
        /\ events' = Append(events, Entry("tool_call", tc, ""))
        /\ executing' = executing \cup {tc_idx}
        /\ IF tc = "respond"
           THEN OpenRendezvous
           ELSE UNCHANGED << rendezvousVars, timer >>
    /\ pc' = "tool_wait"
    /\ UNCHANGED << ctlVars, state, statuses, cmdVars, thought_count,
                    cycles_since_plan, memVars, current_response, tool_round,
                    tc_idx, chat_calls, ok_resps, attempts, failed, round_mark,
                    input_list >>

\* `tokio::time::timeout(CONVERSATION_TIMEOUT_SECS, rx)` is over: a value
\* came through the handle, or the time is up.
WaitOver == reply_slot # None \/ timer = 0

\* What the rendezvous resolves to: the reply, or the "no reply" sentinel.
RespondResult(slot) == IF slot # None THEN "reply" ELSE "no_reply"

\* The for loop goes on to the next call, or to the follow-up call.
NextCall ==
    /\ executing' = executing \ {tc_idx}
    /\ IF tc_idx < Len(current_response.tool_calls)
       THEN tc_idx' = tc_idx + 1 /\ pc' = "tool_start"
       ELSE tc_idx' = tc_idx /\ pc' = "chat_followup"
    /\ UNCHANGED << current_response, tool_round, chat_calls, ok_resps,
                    attempts, round_mark >>

\* `input_list.push(json!({"type": "function_call_output", ...}))`: the item
\* that carries a call's result, as text, into the next reasoning call.
function_call_output(call_id, name, output) ==
    [type |-> "function_call_output", call_id |-> call_id, name |-> name,
     output |-> output]

\* `&tc.call_id`: the id the call was parsed with; the call's place in the
\* response stands for it.
call_id_of(i) == i

\* The handler returns: the tool_result event is emitted, the result is
\* pushed on input_list and the loop moves on. run_command's truncate(3000)
\* panics on an output with a character across the cut.
ToolFinish ==
    /\ pc = "tool_wait"
    /\ UNCHANGED storeVars
    /\ LET tc == CallAt(current_response.tool_calls, tc_idx) IN
        IF tc = "respond"
        THEN /\ WaitOver
             /\ events' = Append(events,
                    Entry("tool_result", tc, RespondResult(reply_slot)))
             /\ input_list' = Append(input_list,
                    function_call_output(call_id_of(tc_idx), tc,
                                         RespondResult(reply_slot)))
             /\ CloseRendezvous
             /\ NextCall
        ELSE \E out \in ShellOutputs :
             IF out = "cut"
             THEN /\ Panicked
                  /\ UNCHANGED << events, rendezvousVars >>
             ELSE /\ events' = Append(events, Entry("tool_result", tc, out))
                  /\ input_list' = Append(input_list,
                         function_call_output(call_id_of(tc_idx), tc, out))
                  /\ NextCall
                  /\ UNCHANGED << rendezvousVars, timer >>
    /\ UNCHANGED << ctlVars, state, statuses, cmdVars, thought_count,
                    cycles_since_plan, memVars, failed >>

\* `e.to_string().contains("500")`
IsTransient(r) == r.has500

\* The follow-up reasoning call of a round returns.
ChatFollowup ==
    /\ pc = "chat_followup"
    /\ UNCHANGED storeVars
    /\ \E o1 \in HttpOutcomes : \E o2 \in SecondAttempt(provider, o1) :
        LET r == chat(provider, o1, o2) IN
        IF r.panic
        THEN /\ Panicked
             /\ failed' = TRUE
             /\ UNCHANGED events
        ELSE /\ chat_calls' = chat_calls + 1
             /\ attempts' = r.attempts
             /\ IF r.ok
                THEN /\ \E resp \in Responses : current_response' = resp
                     /\ ok_resps' = ok_resps + 1
                     /\ pc' = "loop_head"
                     /\ UNCHANGED << events, timer, failed >>
                ELSE IF IsTransient(r)
                THEN /\ pc' = "chat_retry"
                     /\ timer' = RETRY_DELAY_SECS
                     /\ UNCHANGED << current_response, ok_resps, events, failed >>
                ELSE /\ events' = emit("error")
                     /\ failed' = TRUE
                     /\ pc' = "post_loop"
                     /\ UNCHANGED << current_response, ok_resps, timer >>
             /\ UNCHANGED << tool_round, tc_idx, executing, round_mark,
                             input_list >>
    /\ UNCHANGED << ctlVars, state, statuses, cmdVars, rendezvousVars,
                    thought_count, cycles_since_plan, memVars >>

\* After the fixed delay, the retry of the follow-up call returns.
ChatRetry ==
    /\ pc = "chat_retry"
    /\ UNCHANGED storeVars
    /\ timer = 0
    /\ \E o1 \in HttpOutcomes : \E o2 \in SecondAttempt(provider, o1) :
        LET r == chat(provider, o1, o2) IN
        IF r.panic
        THEN /\ Panicked
             /\ failed' = TRUE
             /\ UNCHANGED events
        ELSE /\ chat_calls' = chat_calls + 1
             /\ attempts' = attempts + r.attempts
             /\ IF r.ok
                THEN /\ \E resp \in Responses : current_response' = resp
                     /\ ok_resps' = ok_resps + 1
                     /\ pc' = "loop_head"
                     /\ UNCHANGED << events, failed >>
                ELSE /\ events' = emit("error")
                     /\ failed' = TRUE
                     /\ pc' = "post_loop"
                     /\ UNCHANGED << current_response, ok_resps >>
             /\ UNCHANGED << tool_round, tc_idx, executing, round_mark,
                             input_list, timer >>
    /\ UNCHANGED << ctlVars, state, statuses, cmdVars, rendezvousVars,
                    thought_count, cycles_since_plan, memVars >>

\* score_importance: the number the scoring call returned, 5 when it failed.
score_importance(r, n) == IF r.ok THEN n ELSE 5

\* After the loop: the final thought and MemoryStream::add, whose scoring
\* call goes through providers::chat as well; then think_once returns.
PostLoop ==
    /\ pc = "post_loop"
    /\ UNCHANGED storeVars
    /\ IF current_response.text
       THEN /\ thought_count' = thought_count + 1
            /\ events' = emit("thought")
            /\ \E o1 \in HttpOutcomes : \E o2 \in SecondAttempt(provider, o1) :
                LET r == chat(provider, o1, o2) IN
                IF r.panic
                THEN /\ Panicked
                     /\ UNCHANGED memVars
                ELSE /\ \E n \in (IF r.ok THEN ImportanceScores ELSE {5}) :
                            importance_sum' = importance_sum + score_importance(r, n)
                     /\ memories' = memories + 1
                     /\ ThinkOnceReturns
                     /\ pc' = "reflect_check"
                     /\ UNCHANGED timer
       ELSE /\ ThinkOnceReturns
            /\ pc' = "reflect_check"
            /\ UNCHANGED << thought_count, events, memVars, timer >>
    /\ UNCHANGED << ctlVars, state, statuses, cmdVars, rendezvousVars,
                    cycles_since_plan, failed >>

\* ------------------------------------------------- reflect, plan, idle, sleep

\* MemoryStream::should_reflect (should_reflect_strict: only above the
\* threshold).
should_reflect_strict == importance_sum > reflection_threshold
should_reflect_at_zero == importance_sum >= 0
should_reflect == importance_sum >= reflection_threshold

\* `if self.stream().should_reflect()` and reflect() up to its provider
\* call. The event window restarts with the phase.
ReflectCheck ==
    /\ pc = "reflect_check"
    /\ UNCHANGED storeVars
    /\ IF should_reflect
       THEN /\ set_state("Reflecting")
            /\ events' = << Entry("reflection_start", "", "") >>
            /\ IF memories = 0
               THEN /\ importance_sum' = 0
                    /\ pc' = "plan_check"
               ELSE /\ pc' = "reflect_chat"
                    /\ UNCHANGED importance_sum
       ELSE /\ pc' = "plan_check"
            /\ events' = <<>>
            /\ UNCHANGED << state, statuses, importance_sum >>
    /\ failed' = FALSE
    /\ UNCHANGED << ctlVars, cmdVars, rendezvousVars, thought_count,
                    cycles_since_plan, memories, timer, thinkVars >>

\* The reflection call returns; each insight is stored by MemoryStream::add,
\* with a scoring call of its own; the sum is reset.
ReflectChat ==
    /\ pc = "reflect_chat"
    /\ UNCHANGED storeVars
    /\ \E o1 \in HttpOutcomes : \E o2 \in SecondAttempt(provider, o1) :
        LET r == chat(provider, o1, o2) IN
        IF r.panic
        THEN /\ Panicked
             /\ UNCHANGED << memVars, events >>
        ELSE IF r.ok
        THEN \E lines \in InsightCounts :
             \E s1 \in (IF lines > 0 THEN HttpOutcomes ELSE {"200"}) :
                IF lines > 0 /\ chat(provider, s1, "200").panic
                THEN /\ Panicked
                     /\ UNCHANGED << memVars, events >>
                ELSE /\ memories' = memories + lines
                     /\ events' = emit("reflection")
                     /\ importance_sum' = 0
                     /\ pc' = "plan_check"
                     /\ UNCHANGED << timer, thinkVars >>
        ELSE /\ events' = emit("error")
             /\ importance_sum' = 0
             /\ pc' = "plan_check"
             /\ UNCHANGED << memories, timer, thinkVars >>
    /\ UNCHANGED << ctlVars, state, statuses, cmdVars, rendezvousVars,
                    thought_count, cycles_since_plan, failed >>

PlanDue(n) == n >= PLAN_INTERVAL

\* `self.cycles_since_plan += 1` and plan() up to its provider call.
PlanCheck ==
    /\ pc = "plan_check"
    /\ UNCHANGED storeVars
    /\ cycles_since_plan' = cycles_since_plan + 1
    /\ IF PlanDue(cycles_since_plan + 1)
       THEN /\ set_state("Planning")
            /\ pc' = "plan_chat"
       ELSE /\ pc' = "idle"
            /\ UNCHANGED << state, statuses >>
    /\ events' = <<>>
    /\ UNCHANGED << ctlVars, cmdVars, rendezvousVars, thought_count, memVars,
                    timer, thinkVars, failed >>

\* The planning call returns.
PlanChat ==
    /\ pc = "plan_chat"
    /\ UNCHANGED storeVars
    /\ \E o1 \in HttpOutcomes : \E o2 \in SecondAttempt(provider, o1) :
        LET r == chat(provider, o1, o2) IN
        IF r.panic
        THEN /\ Panicked
             /\ UNCHANGED << cycles_since_plan, events >>
        ELSE /\ IF r.ok
                THEN \E plan_text \in {"", "plan"} :
                     IF plan_text = ""
                     THEN UNCHANGED << cycles_since_plan, events >>
                     ELSE /\ cycles_since_plan' = 0
                          /\ events' = emit("planning")
                ELSE /\ events' = emit("error")
                     /\ UNCHANGED cycles_since_plan
             /\ pc' = "idle"
             /\ UNCHANGED << timer, thinkVars >>
    /\ UNCHANGED << ctlVars, state, statuses, cmdVars, rendezvousVars,
                    thought_count, memVars, failed >>

\* The Idle status, then the pacing sleep begins.
Idle ==
    /\ pc = "idle"
    /\ UNCHANGED storeVars
    /\ set_state("Idle")
    /\ events' = <<>>
    /\ timer' = thinking_pace_seconds
    /\ pc' = "sleep"
    /\ UNCHANGED << ctlVars, cmdVars, rendezvousVars, thought_count,
                    cycles_since_plan, memVars, thinkVars, failed >>

\* `tokio::time::sleep(thinking_pace_seconds)` is over (SleepOverOrStopSent:
\* or a Stop has been sent).
SleepOverOrStopSent == timer = 0 \/ \E i \in 1..Len(queue) : queue[i].kind = "Stop"
SleepOver == timer = 0

\* The pacing sleep ends; the next cycle begins with the drain.
Wake ==
    /\ pc = "sleep"
    /\ UNCHANGED storeVars
    /\ SleepOver
    /\ cycle < MaxCycles
    /\ pc' = "drain"
    /\ statuses' = <<>>
    /\ UNCHANGED << provider, running, state, queue, cmdVars, rendezvousVars,
                    thought_count, cycles_since_plan, memVars, events, timer,
                    applied, sends, cycle, thinkVars, failed >>

Next ==
    \/ Send
    \/ Tick
    \/ DrainCmd
    \/ DrainEmpty
    \/ ChatFirst
    \/ LoopHead
    \/ ToolStart
    \/ ToolFinish
    \/ ChatFollowup
    \/ ChatRetry
    \/ PostLoop
    \/ ReflectCheck
    \/ ReflectChat
    \/ PlanCheck
    \/ PlanChat
    \/ Idle
    \/ Wake

Spec == Init /\ [][Next]_vars

\* ------------------------------------------- the event broadcast channel
\* Brain::event_tx is a tokio broadcast channel. The values sent are numbered
\* 0, 1, 2, ... in send order; event_tx is the number sent so far. A
\* subscriber is a Receiver with its own cursor, held by the forwarding loop
\* of a WebSocket connection ("ws") or of the terminal front end ("tui");
\* rx.missed adds up the counts of the Lagged results it was given.

\* broadcast::channel(256): how many values the channel retains.
EVENT_CAPACITY == 256

\* Values the Brain sends before the model stops following the channel.
MaxEvents == 258

SubscriberKinds == {"ws", "tui"}

\* Everything of the Brain task but the importance sum.
taskVars ==
    << provider, pc, running, state, queue, user_message, focus_mode,
       latest_snapshot, waiting_for_reply, conversation_reply, reply_slot,
       thought_count, cycles_since_plan, memories, events, current_response,
       tool_round, tc_idx, timer, statuses, applied, sends, cycle, chat_calls,
       ok_resps, attempts, failed, executing, round_mark, input_list >>

\* The oldest value the channel still retains.
oldest == IF event_tx > EVENT_CAPACITY THEN event_tx - EVENT_CAPACITY ELSE 0

\* Sender::send: an error exactly when there is no receiver.
send_result == IF rx = NoReceiver THEN "Err" ELSE "Ok"

\* A caller that hands the send error on, instead of dropping it.
send_propagated(r) == r = "Ok"

\* Brain::broadcast: `let _ = self.event_tx.send(event)`, the result dropped.
send_ignored(r) == r \in {"Ok", "Err"}

broadcast ==
    /\ event_tx < MaxEvents
    /\ send_ignored(send_result)
    /\ event_tx' = event_tx + 1
    /\ UNCHANGED << rx, rx_out, streamVars, taskVars, importance_sum, shellVars, adapterVars,
                    sideVars >>

\* Brain::subscribe: the new receiver sees the values sent from now on.
subscribe ==
    /\ rx = NoReceiver
    /\ \E k \in SubscriberKinds : rx' = [kind |-> k, next |-> event_tx, missed |-> 0]
    /\ rx_out' = NoOutcome
    /\ UNCHANGED << event_tx, streamVars, taskVars, importance_sum, shellVars, adapterVars,
                    sideVars >>

\* The Lagged arm of both forwarding loops: log (ws) or not (tui), go on.
lagged_continue(r) == r

\* One turn of a forwarding loop whose recv() has a value to return: Lagged(n)
\* when the cursor's value was overwritten, the cursor then standing on the
\* oldest retained value; otherwise the value under the cursor, which the loop
\* passes on to its client, leaving the loop if the client is gone.
recv ==
    /\ rx # NoReceiver
    /\ rx.next < event_tx
    /\ IF rx.next < oldest
       THEN /\ rx_out' = [tag |-> "Lagged", n |-> oldest - rx.next]
            /\ rx' = lagged_continue([rx EXCEPT !.next = oldest,
                                                !.missed = @ + oldest - rx.next])
       ELSE /\ rx_out' = [tag |-> "Ok", n |-> rx.next]
            /\ \E client_gone \in BOOLEAN :
                 rx' = IF client_gone THEN NoReceiver
                       ELSE [rx EXCEPT !.next = rx.next + 1]
    /\ UNCHANGED << event_tx, streamVars, taskVars, importance_sum, shellVars, adapterVars,
                    sideVars >>

\* The client closes the connection while the loop waits (ws.rs: the
\* socket.recv() arm of the select).
disconnect ==
    /\ rx # NoReceiver
    /\ rx.kind = "ws"
    /\ rx' = NoReceiver
    /\ rx_out' = NoOutcome
    /\ UNCHANGED << event_tx, streamVars, taskVars, importance_sum, shellVars, adapterVars,
                    sideVars >>

NextChannel ==
    \/ broadcast
    \/ subscribe
    \/ recv
    \/ disconnect

InitChannel == Init /\ provider = "custom"

SpecChannel == InitChannel /\ [][NextChannel]_vars

\* ------------------------------------------------------- the memory stream
\* MemoryStream over its ledger file. Text is a sequence of characters, one
\* string per character: "NL" is the line feed, "QT" the double quote, "BS"
\* the backslash, "SP" a space, and "XFF" a byte that is not valid UTF-8. A
\* JSON key with its colon is one character ("id:"), and so is a kind.

\* add calls before the model stops following the stream.
MaxAdds == 2

\* Config::memory_retrieval_count (default 3), fixed small for the check.
memory_retrieval_count == 2

DigitChars == <<"0", "1", "2", "3", "4", "5", "6", "7", "8", "9">>

IsDigit(c) == \E d \in 1..10 : DigitChars[d] = c

DigitVal(c) == (CHOOSE d \in 1..10 : DigitChars[d] = c) - 1

\* The decimal digits of a natural number (Display for integers).
RECURSIVE to_digits(_)
to_digits(n) ==
    IF n < 10 THEN << DigitChars[n + 1] >>
    ELSE to_digits(n \div 10) \o << DigitChars[(n % 10) + 1] >>

\* The value of a run of digits, as str::parse reads it.
RECURSIVE digits_value(_)
digits_value(s) ==
    IF s = <<>> THEN 0
    ELSE 10 * digits_value(SubSeq(s, 1, Len(s) - 1)) + DigitVal(s[Len(s)])

AllDigits(s) == \A i \in 1..Len(s) : IsDigit(s[i])

\* Zero padding to a minimum width ({:04}).
RECURSIVE pad_left(_, _)
pad_left(s, width) == IF Len(s) >= width THEN s ELSE pad_left(<<"0">> \o s, width)

\* format!("m_{:04}", next_id)
format_id(n) == <<"m", "_">> \o pad_left(to_digits(n), 4)

\* Whether str::parse reads a run of digits as a u32 or an i32: it does for
\* every run of up to nine digits, the only runs these inputs hold; a longer
\* run may overflow and is taken to.
fits_32(ds) == ds # <<>> /\ AllDigits(ds) /\ Len(ds) <= 9

\* m.id.strip_prefix("m_").and_then(|s| s.parse::<u32>().ok()): the number
\* of an id, -1 when there is none.
parse_id(id) ==
    IF Len(id) > 2 /\ id[1] = "m" /\ id[2] = "_"
       /\ fits_32(SubSeq(id, 3, Len(id)))
    THEN digits_value(SubSeq(id, 3, Len(id)))
    ELSE -1

\* ---- serde_json::to_string(&Memory)

\* serde_json's string writer: quote, backslash and control characters are
\* written as escape sequences.
escape(c) ==
    CASE c = "NL" -> <<"BS", "n">>
      [] c = "QT" -> <<"BS", "QT">>
      [] c = "BS" -> <<"BS", "BS">>
      [] OTHER -> << c >>

RECURSIVE escape_str(_)
escape_str(s) == IF s = <<>> THEN <<>> ELSE escape(Head(s)) \o escape_str(Tail(s))

json_string(s) == <<"QT">> \o escape_str(s) \o <<"QT">>

RECURSIVE json_strings(_)
json_strings(l) ==
    IF l = <<>> THEN <<>>
    ELSE json_string(Head(l)) \o (IF Len(l) > 1 THEN <<",">> ELSE <<>>)
            \o json_strings(Tail(l))

RECURSIVE json_numbers(_)
json_numbers(l) ==
    IF l = <<>> THEN <<>>
    ELSE to_digits(Head(l)) \o (IF Len(l) > 1 THEN <<",">> ELSE <<>>)
            \o json_numbers(Tail(l))

\* The fields in declaration order (types.rs: struct Memory).
to_string(m) ==
    <<"{", "id:">> \o json_string(m.id)
        \o <<"timestamp:">> \o json_string(m.timestamp)
        \o <<"kind:">> \o json_string(<< m.kind >>)
        \o <<"content:">> \o json_string(m.content)
        \o <<"importance:">> \o to_digits(m.importance)
        \o <<"depth:">> \o to_digits(m.depth)
        \o <<"references:", "[">> \o json_strings(m.references) \o <<"]">>
        \o <<"embedding:", "[">> \o json_numbers(m.embedding) \o <<"]", "}">>

\* ---- serde_json::from_str::<Memory>(line)
\* Every parser takes the line and a position and gives back whether it read
\* a value, the value, and the position after it.

Fail == [ok |-> FALSE, pos |-> 0]

At(l, p) == IF p >= 1 /\ p <= Len(l) THEN l[p] ELSE "EOF"

\* The characters of a string up to its closing quote, escapes undone.
RECURSIVE read_chars(_, _, _)
read_chars(l, p, acc) ==
    CASE At(l, p) = "QT" -> [ok |-> TRUE, str |-> acc, pos |-> p + 1]
      [] At(l, p) \in {"EOF", "NL"} -> Fail
      [] At(l, p) = "BS" ->
            (CASE At(l, p + 1) = "n" -> read_chars(l, p + 2, Append(acc, "NL"))
               [] At(l, p + 1) = "QT" -> read_chars(l, p + 2, Append(acc, "QT"))
               [] At(l, p + 1) = "BS" -> read_chars(l, p + 2, Append(acc, "BS"))
               [] OTHER -> Fail)
      [] OTHER -> read_chars(l, p + 1, Append(acc, At(l, p)))

read_string(l, p) == IF At(l, p) = "QT" THEN read_chars(l, p + 1, <<>>) ELSE Fail

\* The end of the run of digits that starts at p.
RECURSIVE digits_end(_, _)
digits_end(l, p) == IF IsDigit(At(l, p)) THEN digits_end(l, p + 1) ELSE p

read_number(l, p) ==
    LET e == digits_end(l, p) IN
    IF e > p /\ fits_32(SubSeq(l, p, e - 1))
    THEN [ok |-> TRUE, num |-> digits_value(SubSeq(l, p, e - 1)), pos |-> e]
    ELSE Fail

RECURSIVE read_strings(_, _, _)
read_strings(l, p, acc) ==
    LET s == read_string(l, p) IN
    IF ~s.ok THEN Fail
    ELSE IF At(l, s.pos) = ","
         THEN read_strings(l, s.pos + 1, Append(acc, s.str))
         ELSE IF At(l, s.pos) = "]"
              THEN [ok |-> TRUE, list |-> Append(acc, s.str), pos |-> s.pos + 1]
              ELSE Fail

read_string_list(l, p) ==
    IF At(l, p) # "[" THEN Fail
    ELSE IF At(l, p + 1) = "]" THEN [ok |-> TRUE, list |-> <<>>, pos |-> p + 2]
    ELSE read_strings(l, p + 1, <<>>)

RECURSIVE read_numbers(_, _, _)
read_numbers(l, p, acc) ==
    LET n == read_number(l, p) IN
    IF ~n.ok THEN Fail
    ELSE IF At(l, n.pos) = ","
         THEN read_numbers(l, n.pos + 1, Append(acc, n.num))
         ELSE IF At(l, n.pos) = "]"
              THEN [ok |-> TRUE, list |-> Append(acc, n.num), pos |-> n.pos + 1]
              ELSE Fail

read_number_list(l, p) ==
    IF At(l, p) # "[" THEN Fail
    ELSE IF At(l, p + 1) = "]" THEN [ok |-> TRUE, list |-> <<>>, pos |-> p + 2]
    ELSE read_numbers(l, p + 1, <<>>)

\* The value after a key, when the key is there.
after_key(l, p, key) == IF At(l, p) = key THEN p + 1 ELSE 0

\* The embedding field, #[serde(default)]: empty when the key is missing.
read_embedding(l, p) ==
    IF At(l, p) = "embedding:" THEN read_number_list(l, p + 1)
    ELSE [ok |-> TRUE, list |-> <<>>, pos |-> p]

from_str(l) ==
    IF At(l, 1) # "{" THEN Fail ELSE
    LET id == read_string(l, after_key(l, 2, "id:")) IN
    IF ~id.ok THEN Fail ELSE
    LET ts == read_string(l, after_key(l, id.pos, "timestamp:")) IN
    IF ~ts.ok THEN Fail ELSE
    LET kind == read_string(l, after_key(l, ts.pos, "kind:")) IN
    IF ~kind.ok \/ Len(kind.str) # 1 THEN Fail ELSE
    LET content == read_string(l, after_key(l, kind.pos, "content:")) IN
    IF ~content.ok THEN Fail ELSE
    LET imp == read_number(l, after_key(l, content.pos, "importance:")) IN
    IF ~imp.ok THEN Fail ELSE
    LET depth == read_number(l, after_key(l, imp.pos, "depth:")) IN
    IF ~depth.ok THEN Fail ELSE
    LET refs == read_string_list(l, after_key(l, depth.pos, "references:")) IN
    IF ~refs.ok THEN Fail ELSE
    LET emb == read_embedding(l, refs.pos) IN
    IF ~emb.ok \/ At(l, emb.pos) # "}" \/ emb.pos # Len(l) THEN Fail ELSE
    [ok |-> TRUE, pos |-> emb.pos,
     mem |-> [id |-> id.str, timestamp |-> ts.str, kind |-> kind.str[1],
              content |-> content.str, importance |-> imp.num,
              depth |-> depth.num, references |-> refs.list,
              embedding |-> emb.list]]

\* ---- the ledger file

\* str::lines: the pieces between line feeds; a last piece without a line
\* feed counts, an empty rest after the last line feed does not.
lines(f) ==
    LET feeds == { i \in 1..Len(f) : f[i] = "NL" }
        n == Cardinality(feeds)
        feed(k) == IF k = 0 THEN 0
                   ELSE CHOOSE p \in feeds : Cardinality({ q \in feeds : q < p }) = k - 1
        rest == SubSeq(f, feed(n) + 1, Len(f))
    IN [k \in 1..n |-> SubSeq(f, feed(k - 1) + 1, feed(k) - 1)]
          \o (IF rest = <<>> THEN <<>> ELSE << rest >>)

\* str::trim
RECURSIVE trim(_)
trim(l) ==
    IF l = <<>> THEN l
    ELSE IF Head(l) = "SP" THEN trim(Tail(l))
    ELSE IF l[Len(l)] = "SP" THEN trim(SubSeq(l, 1, Len(l) - 1))
    ELSE l

\* fs::read_to_string: an error when the bytes are not UTF-8.
read_to_string(f) ==
    IF \E i \in 1..Len(f) : f[i] = "XFF" THEN [ok |-> FALSE, text |-> <<>>]
    ELSE [ok |-> TRUE, text |-> f]

\* The loop of load over the lines: blank lines and lines that are not a
\* Memory are passed over.
RECURSIVE parse_lines(_)
parse_lines(ls) ==
    IF ls = <<>> THEN <<>>
    ELSE LET line == trim(Head(ls))
             m == from_str(line)
         IN (IF line # <<>> /\ m.ok THEN << m.mem >> ELSE <<>>)
               \o parse_lines(Tail(ls))

IdNumbers(ms) == { parse_id(ms[i].id) : i \in 1..Len(ms) } \ {-1}

Max(S) == CHOOSE x \in S : \A y \in S : y <= x

\* The ids of load: one more than the greatest numbered id, or the 0 that
\* new() put there.
resume_id(ms) == IF IdNumbers(ms) = {} THEN 0 ELSE Max(IdNumbers(ms)) + 1

\* MemoryStream::new and load: the list and next_id of a stream opened on
\* the file f (no file and an empty file give the same).
load(f) ==
    LET r == read_to_string(f)
        ms == IF r.ok THEN parse_lines(lines(r.text)) ELSE <<>>
    IN [memories |-> ms, next_id |-> resume_id(ms)]

\* ---- inputs

\* What the caller of add passes as content (brain.rs: the final thought).
Contents == { <<"a", "NL", "QT", "BS", "n">> }

\* What the scoring call (providers::chat_short) gives back: a text, an error
\* ("err", no text), or a panic inside the Provider Adapter ("panic", the
\* body-prefix slice of providers.rs:349).
ScoreTexts == { <<"5">>, <<"0">>, <<"a">>, <<"5", "/", "1", "0">> }

ScoreOutcomes ==
    [tag : {"ok"}, text : ScoreTexts] \cup [tag : {"err", "panic"}, text : {<<>>}]

NoScore == [tag |-> None, text |-> <<>>]

\* What providers::embed gives back: a vector, an error, or the panic of the
\* body-prefix slice of providers.rs:595.
Embeddings == { <<1, 0>> }

EmbedOutcomes == {"ok", "err", "panic"}

\* What append_to_file leaves in the file: the line and its line feed
\* ("ok"); nothing, when the open or the first write fails ("none"); the line
\* without the line feed, when the write of the line feed fails ("torn").
\* writeln! writes the text and the line feed separately.
WriteOutcomes == {"ok", "none", "torn"}

\* ---- ledgers the stream may be opened on

OldMemory(n, emb) ==
    [id |-> format_id(n), timestamp |-> to_digits(n), kind |-> "thought",
     content |-> <<"a">>, importance |-> 5, depth |-> 0, references |-> <<>>,
     embedding |-> emb]

\* A line written before the embedding field existed.
legacy_line(m) ==
    LET l == to_string([m EXCEPT !.embedding = <<>>])
    IN SubSeq(l, 1, Len(l) - 4) \o <<"}">>

\* No file; a file with a line of the current format, a blank line, a line
\* of the old format and a line cut short; a file with a line that holds a
\* byte that is not UTF-8.
InitialLedgers ==
    { <<>>,
      to_string(OldMemory(0, <<1, 0>>)) \o <<"NL", "SP", "NL">>
          \o legacy_line(OldMemory(1, <<>>)) \o <<"NL">>
          \o SubSeq(to_string(OldMemory(2, <<1, 0>>)), 1, 6) \o <<"NL">>,
      to_string(OldMemory(0, <<1, 0>>)) \o <<"NL">>
          \o <<"{", "id:", "QT", "XFF", "QT", "}", "NL">> }

\* The clock, in ticks since the oldest ledger line was written: every add
\* takes one tick.
now == 3 + Len(issued)

\* ---- MemoryStream

\* The last call on the stream was its opening or a call that may write.
\* The calls that only read leave the stream as it was, so whatever can
\* follow one of them can follow the state before it: the model follows the
\* stream from the states a write or the opening left, a read being the last
\* step of its branch. After a panic (in add: "panic", in the reflection
\* call: "reflect_panic") only the restart is left.
Alive == ret.tag \in {"new", "add", "reflect"}

Clamp(n, lo, hi) == IF n < lo THEN lo ELSE IF n > hi THEN hi ELSE n

\* The Ok arm of score_importance: all ASCII digits of the text, read as one
\* i32, clamped; 5 when that is no i32.
parse_importance(text) ==
    LET ds == SelectSeq(text, IsDigit) IN
    IF fits_32(ds)
    THEN Clamp(digits_value(ds), 1, 10)
    ELSE 5

\* The first number in a text, -1 when it holds no digit.
first_number(text) ==
    LET ps == { i \in 1..Len(text) : IsDigit(text[i]) } IN
    IF ps = {} THEN -1
    ELSE LET p == CHOOSE i \in ps : \A j \in ps : i <= j
         IN digits_value(SubSeq(text, p, digits_end(text, p) - 1))

\* score_importance over the outcome of its call.
importance_of(o) == IF o.tag = "ok" THEN parse_importance(o.text) ELSE 5

\* The Memory that add builds.
new_entry(nid, content, kind, depth, references, importance, embedding) ==
    [id |-> format_id(nid), timestamp |-> to_digits(now), kind |-> kind,
     content |-> content, importance |-> importance, depth |-> depth,
     references |-> references, embedding |-> embedding]

\* append_to_file
append_to_file(f, entry, w) ==
    CASE w = "ok" -> f \o to_string(entry) \o <<"NL">>
      [] w = "torn" -> f \o to_string(entry)
      [] OTHER -> f

\* add, from the call to its return. The stream is s = [memories, next_id,
\* importance_sum, ledger, issued]; the result is the stream afterwards.
add_entry(s, entry, w) ==
    [memories |-> Append(s.memories, entry),
     next_id |-> s.next_id + 1,
     importance_sum |-> s.importance_sum + entry.importance,
     ledger |-> append_to_file(s.ledger, entry, w),
     issued |-> Append(s.issued, entry.id)]

Stream ==
    [memories |-> mem_list, next_id |-> next_id,
     importance_sum |-> importance_sum, ledger |-> ledger, issued |-> issued]

SetStream(s) ==
    /\ mem_list' = s.memories
    /\ next_id' = s.next_id
    /\ importance_sum' = s.importance_sum
    /\ ledger' = s.ledger
    /\ issued' = s.issued

\* The embed call of add is made only if the scoring call came back.
EmbedAfter(so) == IF so.tag = "panic" THEN {None} ELSE EmbedOutcomes

WriteAfter(so, eo) ==
    IF so.tag = "panic" \/ eo = "panic" THEN {None} ELSE WriteOutcomes

\* One call of add(content, kind, depth, references) on the stream s under
\* the outcomes so, eo, w: the stream and the return value afterwards.
add_call(s, content, kind, depth, references, so, eo, w) ==
    IF so.tag = "panic" \/ eo = "panic"
    THEN [stream |-> s, ret |-> [NoRet EXCEPT !.tag = "panic"]]
    ELSE LET emb == IF eo = "ok" THEN CHOOSE e \in Embeddings : TRUE ELSE <<>>
             entry == new_entry(s.next_id, content, kind, depth, references,
                                importance_of(so), emb)
         IN [stream |-> add_entry(s, entry, w),
             ret |-> [tag |-> "add", list |-> << Len(s.memories) + 1 >>,
                      number |-> first_number(so.text)]]

\* think_once: self.stream_mut().add(text, "thought", 0, Vec::new())
add ==
    /\ Alive
    /\ Len(issued) < MaxAdds
    /\ \E content \in Contents : \E so \in ScoreOutcomes :
       \E eo \in EmbedAfter(so) : \E w \in WriteAfter(so, eo) :
          \E r \in { add_call(Stream, content, "thought", 0, <<>>, so, eo, w) } :
          /\ SetStream(r.stream)
          /\ ret' = r.ret
          /\ embed_calls' = IF so.tag = "panic" THEN 0 ELSE 1
    /\ UNCHANGED << taskVars, channelVars, shellVars, adapterVars,
                    sideVars >>

\* get_recent(n, kind): the positions of the last n memories (of the kind).
get_recent(ms, n, kind) ==
    LET all == SelectSeq([i \in 1..Len(ms) |-> i],
                         LAMBDA i : kind = None \/ ms[i].kind = kind)
    IN SubSeq(all, (IF Len(all) > n THEN Len(all) - n ELSE 0) + 1, Len(all))

\* reset_importance_sum
reset_skipped(s) == s

reset_importance_sum(s) == [s EXCEPT !.importance_sum = 0]

\* What the reflection call gives back: that many insight lines, an error
\* (-1), or a panic inside the Provider Adapter (-2).
ReflectOutcomes == {1, 0, -1, -2}

\* Brain::run: `if should_reflect() { reflect() }`, reflect as the stream
\* sees it: get_recent(15, None); with nothing to reflect on, the reset only;
\* else the reflection call, one add per insight line, and the reset.
reflect ==
    /\ Alive
    /\ should_reflect
    /\ LET recent == get_recent(mem_list, 15, None)
           sources == [i \in 1..Len(recent) |-> mem_list[recent[i]].id]
       IN IF recent = <<>>
          THEN /\ SetStream(reset_importance_sum(Stream))
               /\ ret' = [NoRet EXCEPT !.tag = "reflect"]
               /\ embed_calls' = 0
          ELSE \E ro \in ReflectOutcomes :
               \E so \in (IF ro = 1 THEN ScoreOutcomes ELSE {NoScore}) :
               \E eo \in (IF ro = 1 THEN EmbedAfter(so) ELSE {None}) :
               \E w \in (IF ro = 1 THEN WriteAfter(so, eo) ELSE {None}) :
                 /\ ro = 1 => Len(issued) < MaxAdds
                 /\ IF ro = -2
                    THEN /\ ret' = [NoRet EXCEPT !.tag = "reflect_panic"]
                         /\ embed_calls' = 0
                         /\ UNCHANGED << mem_list, next_id, importance_sum,
                                         ledger, issued >>
                    ELSE IF ro = 1
                    THEN \E r \in { add_call(Stream, <<"i">>, "reflection", 1,
                                               sources, so, eo, w) } :
                            /\ SetStream(IF r.ret.tag = "panic" THEN r.stream
                                         ELSE reset_importance_sum(r.stream))
                            /\ ret' = [r.ret EXCEPT
                                         !.tag = IF @ = "panic" THEN @ ELSE "reflect"]
                            /\ embed_calls' = IF so.tag = "panic" THEN 0 ELSE 1
                    ELSE /\ SetStream(reset_importance_sum(Stream))
                         /\ ret' = [NoRet EXCEPT !.tag = "reflect"]
                         /\ embed_calls' = 0
    /\ UNCHANGED << taskVars, channelVars, shellVars, adapterVars,
                    sideVars >>

\* The agent is started again: Brain::run builds a new MemoryStream on the
\* same file.
reload ==
    /\ ret.tag \in {"new", "add", "reflect", "panic", "reflect_panic"}
    /\ \E s \in { load(ledger) } :
         /\ mem_list' = s.memories
         /\ next_id' = s.next_id
    /\ importance_sum' = 0
    /\ ret' = NoRet
    /\ embed_calls' = 0
    /\ UNCHANGED << ledger, issued, taskVars, channelVars, shellVars, adapterVars,
                    sideVars >>

\* ---- retrieval; scores are in thousandths

IntSqrt(x) == CHOOSE r \in 0..x : r * r <= x /\ (r + 1) * (r + 1) > x

RECURSIVE Dot(_, _)
Dot(a, b) == IF a = <<>> THEN 0 ELSE a[1] * b[1] + Dot(Tail(a), Tail(b))

cosine_sim(a, b) ==
    IF Len(a) # Len(b) \/ a = <<>> THEN 0
    ELSE IF Dot(a, a) = 0 \/ Dot(b, b) = 0 THEN 0
    ELSE (1000 * Dot(a, b)) \div IntSqrt(Dot(a, a) * Dot(b, b))

\* Timestamps are written with their fraction of a second; the clock of the
\* model ticks this many times a second.
TicksPerSecond == 2

\* num_seconds(): the whole seconds of a duration given in ticks.
num_seconds(ticks) == ticks \div TicksPerSecond

\* The age of a memory at the time `at`, the unit of num_seconds() / 3600.0
\* being the whole second; 1000 when its timestamp does not parse.
hours_ago(m, at) ==
    IF m.timestamp # <<>> /\ AllDigits(m.timestamp)
    THEN num_seconds(at - digits_value(m.timestamp))
    ELSE 1000

\* exp(-(1 - recency_decay_rate) * hours) at the default rate 0.995.
recency(h) == IF h <= 20 THEN 1000 - 5 * h ELSE 7

score(m, query_embedding, with_relevance, at) ==
    recency(hours_ago(m, at)) + 100 * m.importance
        + (IF with_relevance /\ m.embedding # <<>> /\ query_embedding # <<>>
           THEN cosine_sim(query_embedding, m.embedding) ELSE 0)

\* The score of retrieve_sync: no relevance term.
score_with_stored_relevance(m, at) == score(m, m.embedding, TRUE, at)

score_sync(m, at) == score(m, <<>>, FALSE, at)

\* sort_by on the scores, descending and stable, then take(top_k): the
\* positions of the memories in result order.
top_scored_unstable(scores, top_k) ==
    LET n == Len(scores)
        rank(i) == Cardinality({ j \in 1..n : scores[j] > scores[i] })
                     + Cardinality({ j \in (i + 1)..n : scores[j] = scores[i] }) + 1
        sorted == [r \in 1..n |-> CHOOSE i \in 1..n : rank(i) = r]
    IN SubSeq(sorted, 1, IF top_k < n THEN top_k ELSE n)

top_scored(scores, top_k) ==
    LET n == Len(scores)
        rank(i) == Cardinality({ j \in 1..n : scores[j] > scores[i] })
                     + Cardinality({ j \in 1..(i - 1) : scores[j] = scores[i] }) + 1
        sorted == [r \in 1..n |-> CHOOSE i \in 1..n : rank(i) = r]
    IN SubSeq(sorted, 1, IF top_k < n THEN top_k ELSE n)

\* The fallback of retrieve: self.memories[len.saturating_sub(top_k)..], as
\* positions.
most_recent(n, top_k) ==
    [i \in 1..(IF top_k < n THEN top_k ELSE n) |->
        (IF top_k < n THEN n - top_k ELSE 0) + i]

\* top_k.unwrap_or(self.config.memory_retrieval_count); the Option is a
\* sequence of no or one value.
TopK == { <<>>, <<1>> }

unwrap_top_k(k) == IF k = <<>> THEN memory_retrieval_count ELSE k[1]

\* What embedding the query gives: a vector (empty when the backend's
\* answer holds no number), an error, or the panic of the body-prefix slice
\* of providers.rs:595.
QueryOutcomes ==
    [tag : {"ok"}, emb : { <<0, 1>>, <<1, 0>>, <<>> }]
        \cup [tag : {"err", "panic"}, emb : { <<>> }]

\* Ticks between the time the next add would be stamped and the read.
Waits == {0, 1}

\* A retrieve that embeds the query before it looks at the list.
embeds_when_empty(ms) == 1

embeds_query(ms) == IF ms = <<>> THEN 0 ELSE 1

retrieve ==
    /\ Alive
    /\ \E k \in TopK : \E q \in QueryOutcomes : \E wait \in Waits :
        LET top_k == unwrap_top_k(k)
            n == Len(mem_list)
            at == now + wait
        IN /\ embed_calls' = embeds_query(mem_list)
           /\ ret' =
                IF mem_list = <<>>
                THEN [NoRet EXCEPT !.tag = "retrieve", !.top_k = top_k]
                ELSE IF q.tag = "panic"
                THEN [NoRet EXCEPT !.tag = "retrieve_panic", !.query = q,
                                   !.top_k = top_k]
                ELSE IF q.tag = "err"
                THEN [NoRet EXCEPT !.tag = "retrieve", !.query = q,
                                   !.top_k = top_k,
                                   !.list = most_recent(n, top_k)]
                ELSE [NoRet EXCEPT
                        !.tag = "retrieve", !.query = q, !.top_k = top_k,
                        !.at = at,
                        !.list = top_scored(
                            [i \in 1..n |-> score(mem_list[i], q.emb, TRUE, at)],
                            top_k)]
    /\ UNCHANGED << mem_list, next_id, importance_sum, ledger, issued,
                    taskVars, channelVars, shellVars, adapterVars,
                    sideVars >>

retrieve_sync ==
    /\ Alive
    /\ \E k \in TopK : \E wait \in Waits :
        LET top_k == unwrap_top_k(k)
            at == now + wait
        IN ret' =
            IF mem_list = <<>>
            THEN [NoRet EXCEPT !.tag = "retrieve_sync", !.top_k = top_k]
            ELSE [NoRet EXCEPT
                    !.tag = "retrieve_sync", !.top_k = top_k, !.at = at,
                    !.list = top_scored(
                        [i \in 1..Len(mem_list) |-> score_sync(mem_list[i], at)],
                        top_k)]
    /\ embed_calls' = 0
    /\ UNCHANGED << mem_list, next_id, importance_sum, ledger, issued,
                    taskVars, channelVars, shellVars, adapterVars,
                    sideVars >>

\* reflect and plan read the recent memories with get_recent(15 or 10, None).
read_recent ==
    /\ Alive
    /\ \E a \in { <<1, None>>, <<15, None>>, <<15, "reflection">> } :
        LET n == a[1]
            kind == a[2]
        IN ret' = [NoRet EXCEPT !.tag = "get_recent",
                             !.list = get_recent(mem_list, n, kind)]
    /\ embed_calls' = 0
    /\ UNCHANGED << mem_list, next_id, importance_sum, ledger, issued,
                    taskVars, channelVars, shellVars, adapterVars,
                    sideVars >>

InitStream ==
    /\ InitTask
    /\ provider = "custom"
    /\ ledger \in InitialLedgers
    /\ LET s == load(ledger) IN
         /\ mem_list = s.memories
         /\ next_id = s.next_id
    /\ ret = NoRet
    /\ embed_calls = 0
    /\ issued = <<>>
    /\ event_tx = 0
    /\ rx = NoReceiver
    /\ rx_out = NoOutcome
    /\ InitNoCommand
    /\ InitNoChat
    /\ InitNoSide

NextStream ==
    \/ add
    \/ reflect
    \/ reload
    \/ read_recent

SpecStream == InitStream /\ [][NextStream]_vars

\* ---- retrieval over the streams a ledger can hold

\* Lines of the ledgers the retrieval calls are followed on.
MaxStored == 3

\* What may differ between the lines: the importance, the embedding (none
\* when the embed call had failed), and whether the timestamp parses.
StoredShapes ==
    [importance : {5, 10}, embedding : { <<>>, <<1, 0>> }, stamped : BOOLEAN]

\* The i-th memory of a ledger, written one tick after the one before it.
StoredMemory(i, shape) ==
    [OldMemory(i, shape.embedding) EXCEPT
        !.importance = shape.importance,
        !.timestamp = IF shape.stamped THEN @ ELSE <<"n">>]

RECURSIVE file_of(_)
file_of(ms) ==
    IF ms = <<>> THEN <<>>
    ELSE to_string(Head(ms)) \o <<"NL">> \o file_of(Tail(ms))

StoredLedgers ==
    UNION { { file_of([i \in 1..n |-> StoredMemory(i - 1, f[i])]) :
                f \in [1..n -> StoredShapes] } : n \in 0..MaxStored }

InitRetrieve ==
    /\ InitTask
    /\ provider = "custom"
    /\ ledger \in InitialLedgers \cup StoredLedgers
    /\ \E s \in { load(ledger) } :
         /\ mem_list = s.memories
         /\ next_id = s.next_id
    /\ ret = NoRet
    /\ embed_calls = 0
    /\ issued = <<>>
    /\ event_tx = 0
    /\ rx = NoReceiver
    /\ rx_out = NoOutcome
    /\ InitNoCommand
    /\ InitNoChat
    /\ InitNoSide

NextRetrieve ==
    \/ retrieve
    \/ retrieve_sync

SpecRetrieve == InitRetrieve /\ [][NextRetrieve]_vars

\* ====================================================================
\* The shell tool (tools/shell.rs): is_safe_command, the rewriting of
\* python, script and pip commands, and run_command. A command is the
\* sequence of its characters ("SP": space, "BT": backtick); the paths that
\* run_command takes from the file system are single characters that hold
\* no space ("PY": the python of the venv, "SANDBOX": pysandbox.py, "ROOT":
\* the canonical root, "UV": the uv binary).
\* ====================================================================

BLOCKED_PREFIXES ==
    <<
      <<"s", "u", "d", "o">>, <<"s", "u", "SP">>,
      <<"r", "m", "SP", "-", "r", "f", "SP", "/">>,
      <<"c", "h", "m", "o", "d">>, <<"c", "h", "o", "w", "n">>,
      <<"k", "i", "l", "l">>, <<"p", "k", "i", "l", "l">>,
      <<"c", "u", "r", "l">>, <<"w", "g", "e", "t">>, <<"n", "c", "SP">>,
      <<"n", "c", "a", "t">>, <<"s", "s", "h">>, <<"s", "c", "p">>,
      <<"s", "f", "t", "p">>, <<"n", "o", "d", "e">>,
      <<"r", "u", "b", "y">>, <<"p", "e", "r", "l">>,
      <<"b", "a", "s", "h">>, <<"s", "h", "SP">>, <<"z", "s", "h">>,
      <<"e", "x", "p", "o", "r", "t">>, <<"s", "o", "u", "r", "c", "e">>,
      <<"e", "v", "a", "l">>, <<"e", "x", "e", "c">>,
      <<"m", "o", "u", "n", "t">>, <<"u", "m", "o", "u", "n", "t">>,
      <<"d", "d", "SP">>, <<"m", "k", "f", "s">>,
      <<"f", "d", "i", "s", "k">>, <<"a", "p", "t">>,
      <<"b", "r", "e", "w">>, <<"n", "p", "m">>, <<"y", "a", "r", "n">>,
      <<"o", "p", "e", "n", "SP">>,
      <<"x", "d", "g", "-", "o", "p", "e", "n">>
    >>

\* The characters of [A-Za-z0-9_].
WordChars ==
    {
      "a", "b", "c", "d", "e", "f", "g", "h", "i", "j", "k", "l", "m", "n",
      "o", "p", "q", "r", "s", "t", "u", "v", "w", "x", "y", "z", "A", "B",
      "C", "D", "E", "F", "G", "H", "I", "J", "K", "L", "M", "N", "O", "P",
      "Q", "R", "S", "T", "U", "V", "W", "X", "Y", "Z", "0", "1", "2", "3",
      "4", "5", "6", "7", "8", "9", "_"
    }

\* The characters that the token loops strip from the front of a token.
LeadChars == {">", "<", "=", "|", ";", "&", "("}

starts_with(s, p) == Len(p) <= Len(s) /\ SubSeq(s, 1, Len(p)) = p

contains(s, p) ==
    \E i \in 1..(Len(s) - Len(p) + 1) : SubSeq(s, i, i + Len(p) - 1) = p

\* str::find: the position of the first occurrence, 0 when there is none.
find(s, p) ==
    IF contains(s, p)
    THEN CHOOSE i \in 1..(Len(s) - Len(p) + 1) :
            /\ SubSeq(s, i, i + Len(p) - 1) = p
            /\ \A j \in 1..(i - 1) : SubSeq(s, j, j + Len(p) - 1) # p
    ELSE 0

\* split_whitespace: the tokens in order.
RECURSIVE split_whitespace(_)
split_whitespace(s) ==
    IF s = <<>> THEN <<>>
    ELSE IF Head(s) = "SP" THEN split_whitespace(Tail(s))
    ELSE LET sp == find(s, <<"SP">>)
             end == IF sp = 0 THEN Len(s) ELSE sp - 1
         IN << SubSeq(s, 1, end) >> \o split_whitespace(SubSeq(s, end + 1, Len(s)))

RECURSIVE trim_start_matches(_, _)
trim_start_matches(token, chars) ==
    IF token # <<>> /\ Head(token) \in chars
    THEN trim_start_matches(Tail(token), chars)
    ELSE token

\* Regex::new(r"/[A-Za-z0-9_]").is_match: the pattern occurs somewhere.
abs_path_re_is_match(s) ==
    \E i \in 1..(Len(s) - 1) : s[i] = "/" /\ s[i + 1] \in WordChars

DEV_NULL == <<"/", "d", "e", "v", "/", "n", "u", "l", "l">>

\* The Option<String> of is_safe_command: no message is the empty sequence,
\* a message is the sequence of its parts.
NoMessage == <<>>

is_traversal(clean) ==
    \/ clean = <<".", ".">>
    \/ starts_with(clean, <<".", ".", "/">>)
    \/ contains(clean, <<"/", ".", ".">>)

is_exempt(clean) == starts_with(clean, DEV_NULL)

accepts_all(command) == NoMessage

is_safe_command(command) ==
    LET stripped == trim(command)
        hits == { i \in 1..Len(BLOCKED_PREFIXES) :
                    starts_with(stripped, BLOCKED_PREFIXES[i]) }
        tokens == split_whitespace(stripped)
        clean(i) == trim_start_matches(tokens[i], LeadChars)
    IN IF stripped = <<>> THEN << "Blocked: empty command." >>
       ELSE IF hits # {}
       THEN << "Blocked: '" >>
                \o BLOCKED_PREFIXES[CHOOSE i \in hits : \A j \in hits : i <= j]
                \o << "' commands are not allowed." >>
       ELSE IF \E i \in 1..Len(tokens) : is_traversal(clean(i))
       THEN << "Blocked: '..' path traversal is not allowed in commands." >>
       ELSE IF contains(stripped, << "BT" >>)
       THEN << "Blocked: backtick command substitution is not allowed." >>
       ELSE IF contains(stripped, << "$", "(" >>)
       THEN << "Blocked: command substitution $() is not allowed." >>
       ELSE IF contains(stripped, << "$", "{" >>)
       THEN << "Blocked: variable expansion ${} is not allowed." >>
       ELSE IF contains(stripped, << "~" >>)
       THEN << "Blocked: '~' (home expansion) is not allowed." >>
       ELSE IF \E i \in 1..Len(tokens) :
                  abs_path_re_is_match(clean(i)) /\ ~is_exempt(clean(i))
       THEN << "Blocked: absolute paths are not allowed. Use relative paths only." >>
       ELSE NoMessage

\* s.replace('\'', "'\\''")
RECURSIVE replace_quotes(_)
replace_quotes(s) ==
    IF s = <<>> THEN <<>>
    ELSE (IF Head(s) = "'" THEN << "'", "BS", "'", "'" >> ELSE << Head(s) >>)
            \o replace_quotes(Tail(s))

shell_escape(s) ==
    IF contains(s, <<"SP">>) \/ contains(s, <<"'">>) \/ contains(s, <<"QT">>)
    THEN << "'" >> \o replace_quotes(s) \o << "'" >>
    ELSE s

\* The python to run: the python of the venv when it is a file.
python_of(venv) == IF venv THEN << "PY" >> ELSE <<"p", "y", "t", "h", "o", "n", "3">>

\* The rewrite functions give no command (the empty sequence) when the
\* command is not of their kind.
rewrite_python_cmd(command, venv) ==
    LET stripped == trim(command)
        rest == IF starts_with(stripped, <<"p", "y", "t", "h", "o", "n", "3">>)
                THEN SubSeq(stripped, 8, Len(stripped))
                ELSE SubSeq(stripped, 7, Len(stripped))
    IN IF starts_with(stripped, <<"p", "y", "t", "h", "o", "n">>)
       THEN shell_escape(python_of(venv)) \o << "SP" >>
                \o shell_escape(<< "SANDBOX" >>) \o << "SP" >>
                \o shell_escape(<< "ROOT" >>) \o rest
       ELSE <<>>

rewrite_script_cmd(command, venv) ==
    LET stripped == trim(command)
        body == SubSeq(stripped, 3, Len(stripped))
        sp == find(body, << "SP" >>)
        script == IF sp = 0 THEN body ELSE SubSeq(body, 1, sp - 1)
        rest == IF sp = 0 THEN <<>> ELSE SubSeq(body, sp + 1, Len(body))
    IN IF starts_with(stripped, << ".", "/" >>) /\ contains(stripped, <<".", "p", "y">>)
       THEN shell_escape(python_of(venv)) \o << "SP" >>
                \o shell_escape(<< "SANDBOX" >>) \o << "SP" >>
                \o shell_escape(<< "ROOT" >>) \o << "SP" >>
                \o shell_escape(script)
                \o (IF rest # <<>> THEN << "SP" >> \o rest ELSE <<>>)
       ELSE <<>>

rewrite_pip_cmd(command) ==
    LET stripped == trim(command)
    IN IF starts_with(stripped, <<"u", "v", "SP", "p", "i", "p", "SP">>)
       THEN shell_escape(<< "UV" >>) \o <<"SP", "p", "i", "p", "SP">>
                \o SubSeq(stripped, 8, Len(stripped))
                \o <<"SP", "-", "-", "p", "y", "t", "h", "o", "n", "SP">> \o shell_escape(<< "PY" >>)
       ELSE IF \/ starts_with(stripped, <<"p", "i", "p", "SP", "i", "n", "s", "t", "a", "l", "l">>)
               \/ starts_with(stripped, <<"p", "i", "p", "3", "SP", "i", "n", "s", "t", "a", "l", "l">>)
       THEN shell_escape(<< "PY" >>) \o <<"SP", "-", "m", "SP", "p", "i", "p", "SP">>
                \o SubSeq(stripped, find(stripped, <<"i", "n", "s", "t", "a", "l", "l">>), Len(stripped))
       ELSE <<>>

or_else(rewritten, cmd) == IF rewritten # <<>> THEN rewritten ELSE cmd

\* The command that run_command hands to `sh -c`.
rewritten_cmd(command, venv) ==
    LET c1 == or_else(rewrite_python_cmd(command, venv), command)
        c2 == or_else(rewrite_script_cmd(c1, venv), c1)
    IN or_else(rewrite_pip_cmd(c2), c2)

\* ---- the output of the process

\* result.len() > 3000 and result.truncate(3000), in bytes.
OUTPUT_LIMIT == 3000

\* A text is a sequence of runs of characters of one width in bytes; blank
\* runs are white space.
Run(width, count, blank) == [width |-> width, count |-> count, blank |-> blank]

RECURSIVE len(_)
len(text) ==
    IF text = <<>> THEN 0 ELSE Head(text).width * Head(text).count + len(Tail(text))

is_blank(text) == \A i \in 1..Len(text) : text[i].blank \/ text[i].count = 0

\* str::is_char_boundary(n) for n <= len.
RECURSIVE is_char_boundary(_, _)
is_char_boundary(text, n) ==
    IF n = 0 THEN TRUE
    ELSE IF text = <<>> THEN FALSE
    ELSE LET bytes == Head(text).width * Head(text).count
         IN IF n >= bytes THEN is_char_boundary(Tail(text), n - bytes)
            ELSE n % Head(text).width = 0

\* The first n bytes of the text, n being a character boundary.
RECURSIVE take_bytes(_, _)
take_bytes(text, n) ==
    IF n = 0 \/ text = <<>> THEN <<>>
    ELSE LET bytes == Head(text).width * Head(text).count
         IN IF n >= bytes THEN << Head(text) >> \o take_bytes(Tail(text), n - bytes)
            ELSE << [Head(text) EXCEPT !.count = n \div Head(text).width] >>

\* What Command::output() gives: a spawn error, or the process's stdout and
\* stderr (from_utf8_lossy of each, one after the other).
Outputs ==
    { <<>>,
      << Run(1, 2, TRUE) >>,
      << Run(1, 5, FALSE) >>,
      << Run(1, OUTPUT_LIMIT, FALSE) >>,
      << Run(1, OUTPUT_LIMIT + 1, FALSE) >>,
      << Run(3, OUTPUT_LIMIT \div 3, FALSE), Run(1, 1, FALSE) >>,
      << Run(1, OUTPUT_LIMIT - 1, FALSE), Run(3, 1, FALSE) >>,
      << Run(3, OUTPUT_LIMIT + 1, FALSE) >> }

SpawnOutcomes == [ok : {TRUE}, output : Outputs] \cup [ok : {FALSE}, output : { <<>> }]

Returned(tag, msg, text, marker) ==
    [tag |-> tag, msg |-> msg, text |-> text, marker |-> marker]

\* The Ok arm of run_command's match on the output.
result_of(output) ==
    IF is_blank(output) THEN Returned("string", << "(no output)" >>, <<>>, FALSE)
    ELSE IF len(output) > OUTPUT_LIMIT
    THEN IF is_char_boundary(output, OUTPUT_LIMIT)
         THEN Returned("string", <<>>, take_bytes(output, OUTPUT_LIMIT), TRUE)
         ELSE Returned("panic", <<>>, <<>>, FALSE)
    ELSE Returned("string", <<>>, output, FALSE)

\* The commands the model gives to run_command: a program and one argument.
Programs ==
    {
      <<"l", "s">>, <<"c", "a", "t">>, <<"e", "c", "h", "o">>,
      <<"s", "u", "d", "o">>, <<"s", "u">>, <<"s", "h">>,
      <<"s", "h", "u", "f">>, <<"p", "y", "t", "h", "o", "n", "3">>,
      <<"p", "y", "t", "h", "o", "n">>,
      <<"p", "i", "p", "SP", "i", "n", "s", "t", "a", "l", "l">>,
      <<"u", "v", "SP", "p", "i", "p", "SP", "i", "n", "s", "t", "a", "l", "l">>,
      <<".", "/", "s", ".", "p", "y">>,
      <<".", "/", ".", "s", ".", "p", "y">>
    }

Arguments ==
    {
      <<"a">>, <<"n", "/", "a">>, <<"a", "/">>, <<".", ".">>,
      <<".", ".", "/", "a">>, <<"a", "/", ".", ".">>,
      <<">", ".", ".", "/", "a">>, <<"a", ".", ".", "b">>,
      <<"BT", "i", "d", "BT">>, <<"$", "(", "i", "d", ")">>,
      <<"$", "{", "H", "}">>, <<"~", "/", "a">>, <<"/", "e", "t", "c">>,
      <<"/", "d", "e", "v", "/", "n", "u", "l", "l">>,
      <<">", "/", "d", "e", "v", "/", "n", "u", "l", "l">>,
      <<">", "SP", "/", "d", "e", "v", "/", "n", "u", "l", "l">>,
      <<"/", "d", "e", "v", "/", "n", "u", "l", "l", "x">>,
      <<"2", ">", "/", "d", "e", "v", "/", "n", "u", "l", "l">>,
      <<"x", "=", "/", "e", "t", "c">>,
      <<"r", "m", "SP", "-", "r", "f", "SP", "/">>, <<"a", "SP">>
    }

ShellCommands ==
    { <<>>, << "SP" >> } \cup Programs
        \cup { p \o << "SP" >> \o a : p \in Programs, a \in Arguments }
        \cup { << "SP" >> \o p : p \in Programs }

\* run_command(command, env_root), from the call to the return.
run_command ==
    /\ result = NoResult
    /\ \E venv \in BOOLEAN : \E o \in SpawnOutcomes :
        LET err == is_safe_command(tool_command) IN
        IF err # NoMessage
        THEN /\ result' = Returned("string", err, <<>>, FALSE)
             /\ spawned' = spawned
        ELSE /\ spawned' = Append(spawned, rewritten_cmd(tool_command, venv))
             /\ result' = IF o.ok THEN result_of(o.output)
                          ELSE Returned("string", << "Error: ", "E" >>, <<>>, FALSE)
    /\ UNCHANGED << tool_command, taskVars, importance_sum, streamVars,
                    channelVars, adapterVars, sideVars >>

InitShell ==
    /\ InitTask
    /\ provider = "custom"
    /\ mem_list = <<>>
    /\ next_id = 0
    /\ ledger = <<>>
    /\ ret = NoRet
    /\ embed_calls = 0
    /\ issued = <<>>
    /\ event_tx = 0
    /\ rx = NoReceiver
    /\ rx_out = NoOutcome
    /\ tool_command \in ShellCommands
    /\ spawned = <<>>
    /\ result = NoResult
    /\ InitNoChat
    /\ InitNoSide

NextShell ==
    \/ run_command

SpecShell == InitShell /\ [][NextShell]_vars

\* ------------------------------------------------------- providers::chat

\* `tokio::time::sleep(Duration::from_secs(2))` before the second attempt.
COMPLETIONS_RETRY_SECS == 2

\* What `.json(&body)` posts. At the first attempt `body` is the request; in
\* the error branch `let body = response.text()` shadows it, so the second
\* attempt posts the text of the error answer.
retry_body == "error_text"

\* The bodies one call posts, by protocol and by the first answer: one for
\* chat_responses; two for chat_completions when it goes on to the second
\* attempt. A "neterr" answer ends the call at `?` and a body cut off a
\* character boundary ends it in error!'s slice, both before the status test.
posted_by(p, o1) ==
    IF uses_responses_api(p) \/ o1 \in {"200", "neterr"} \/ BodyPrefixPanics(o1)
       \/ ~RetriedStatus(o1)
    THEN << "request" >>
    ELSE << "request", retry_body >>

\* The seconds one call sleeps between its attempts.
slept_by(p, o1) ==
    IF Len(posted_by(p, o1)) = 2 THEN COMPLETIONS_RETRY_SECS ELSE 0

\* One call of providers::chat against a backend that answers the first
\* attempt with answers[1] and a second one, if it comes, with answers[2].
chat_call ==
    /\ chat_ret = NoChat
    /\ chat_ret' = chat(provider, answers[1], answers[2])
    /\ posted' = posted_by(provider, answers[1])
    /\ slept' = slept_by(provider, answers[1])
    /\ UNCHANGED << answers, taskVars, importance_sum, streamVars, channelVars,
                    shellVars, sideVars >>

InitChat ==
    /\ InitTask
    /\ mem_list = <<>>
    /\ next_id = 0
    /\ ledger = <<>>
    /\ ret = NoRet
    /\ embed_calls = 0
    /\ issued = <<>>
    /\ event_tx = 0
    /\ rx = NoReceiver
    /\ rx_out = NoOutcome
    /\ InitNoCommand
    /\ answers \in HttpOutcomes \X HttpOutcomes
    /\ posted = <<>>
    /\ slept = 0
    /\ chat_ret = NoChat
    /\ InitNoSide

NextChat ==
    \/ chat_call

SpecChat == InitChat /\ [][NextChat]_vars

\* ------------------------------------------- research cycles and the nudge

\* `matches!(tc.name.as_str(), "web_search" | "web_fetch" | "fetch_url")`
ResearchTools == {"web_search", "web_fetch", "fetch_url"}

\* The tool calls of one think cycle, over all its rounds.
CycleCalls ==
    LET Tools == ResearchTools \cup {"shell", "respond"} IN
    { <<>> } \cup { << a >> : a \in Tools } \cup (Tools \X Tools)

\* `did_research`: set by any research call of the cycle.
\* (only_research: set when the cycle has calls and all are research calls.)
only_research(calls) ==
    calls # <<>> /\ \A i \in 1..Len(calls) : calls[i] \in ResearchTools
did_research(calls) == \E i \in 1..Len(calls) : calls[i] \in ResearchTools

\* The end of think_once's tool loop: the counter after a cycle with these
\* calls, `created` telling whether the scan after the loop shows a file the
\* scan before it did not.
track_research(n, calls, created) ==
    IF created THEN 0
    ELSE IF did_research(calls) THEN n + 1
    ELSE n

\* build_continue_nudge, its research part: the focus nudge alone in focus
\* mode, else the urgent text from 5, the mild text from 3, nothing below.
build_continue_nudge(focus, n) ==
    IF focus THEN "focus"
    ELSE IF n >= 5 THEN "stop_researching"
    ELSE IF n >= 3 THEN "write_up"
    ELSE "none"

\* One think_once, followed for the counter: build_input builds the nudge
\* from the counter as the last cycle left it; when the first reasoning call
\* fails the function returns before the scans; else the loop runs the calls
\* and the counter is brought up to date.
think_once ==
    /\ cycle < MaxCycles
    /\ cycle' = cycle + 1
    /\ nudge' = build_continue_nudge(focus_mode, consecutive_research_cycles)
    /\ \E first_ok \in BOOLEAN :
        IF first_ok
        THEN \E calls \in CycleCalls : \E created \in BOOLEAN :
                /\ cycle_obs' = [calls |-> calls, created |-> created]
                /\ consecutive_research_cycles' =
                       track_research(consecutive_research_cycles, calls, created)
        ELSE /\ cycle_obs' = NoCycle
             /\ UNCHANGED consecutive_research_cycles
    /\ UNCHANGED << provider, pc, running, state, queue, cmdVars, rendezvousVars,
                    thought_count, cycles_since_plan, memVars, events, timer,
                    statuses, applied, sends, thinkVars, failed,
                    streamVars, channelVars, shellVars, adapterVars,
                    transcriptVars, moveVars, lateVars >>

\* The focus switch is as an earlier SetFocusMode command left it.
InitResearch ==
    /\ InitFields
    /\ provider = "custom"
    /\ focus_mode \in BOOLEAN
    /\ mem_list = <<>>
    /\ next_id = 0
    /\ ledger = <<>>
    /\ ret = NoRet
    /\ embed_calls = 0
    /\ issued = <<>>
    /\ event_tx = 0
    /\ rx = NoReceiver
    /\ rx_out = NoOutcome
    /\ InitNoCommand
    /\ InitNoChat
    /\ InitNoResearch
    /\ InitNoTranscript
    /\ InitNoMove
    /\ InitNoLate

NextResearch ==
    \/ think_once

SpecResearch == InitResearch /\ [][NextResearch]_vars

\* ------------------------------------------------------------ Brain::emit

\* Values the Brain may send on event_tx over one run.
MaxBroadcasts == 4

\* The event types emit is called with.
EventTypes == {"thought", "tool_call", "error"}

\* The BrainEvent variants sent by broadcast calls outside emit.
OtherEvents == {"Status", "ApiCall"}

\* `EventEntry { event_type, timestamp, thought_number, data }`; the time
\* stamp is left out.
EventEntry(event_type, data) ==
    [event_type |-> event_type, thought_number |-> thought_count, data |-> data]

\* `self.events.push(entry.clone())`
\* (push_bounded: the list keeps its newest entry only.)
push_bounded(list, entry) == << entry >>
push(list, entry) == Append(list, entry)

\* `self.event_tx.send(event)`, the result ignored.
BrainEvent(kind, entry) == [kind |-> kind, entry |-> entry]

\* Brain::emit: the entry is pushed on the transcript and sent, once each.
emit_entry ==
    /\ Len(event_log) < MaxBroadcasts
    /\ \E event_type \in EventTypes : \E data \in {"a", "b"} :
        LET entry == EventEntry(event_type, data) IN
        /\ transcript' = push(transcript, entry)
        /\ event_log' = Append(event_log, BrainEvent("Entry", << entry >>))
    /\ UNCHANGED << taskVars, importance_sum, streamVars, channelVars, shellVars,
                    adapterVars, researchVars, moveVars, lateVars >>

\* `self.thought_count += 1`, before the final thought of a cycle is emitted.
count_thought ==
    /\ thought_count < MaxThoughts
    /\ thought_count' = thought_count + 1
    /\ UNCHANGED << provider, pc, running, state, queue, cmdVars, rendezvousVars,
                    cycles_since_plan, memVars, events, timer, statuses, applied,
                    sends, cycle, thinkVars, failed, storeVars >>

\* A broadcast outside emit (a status, an API call record): sent, and no
\* entry of the transcript.
broadcast_other ==
    /\ Len(event_log) < MaxBroadcasts
    /\ \E kind \in OtherEvents :
        event_log' = Append(event_log, BrainEvent(kind, <<>>))
    /\ UNCHANGED << transcript, taskVars, importance_sum, streamVars, channelVars,
                    shellVars, adapterVars, researchVars, moveVars, lateVars >>

InitTranscript ==
    /\ InitTask
    /\ provider = "custom"
    /\ InitStores
    /\ InitNoResearch
    /\ InitNoTranscript
    /\ InitNoMove
    /\ InitNoLate

NextTranscript ==
    \/ emit_entry
    \/ count_thought
    \/ broadcast_other

SpecTranscript == InitTranscript /\ [][NextTranscript]_vars

\* --------------------------------------------------------- tools::movement

ROOM_COLS == 12
ROOM_ROWS == 12

\* COLLISION_ROWS: "X" blocked, "." walkable; row 0 first.
COLLISION_ROWS ==
    << << "X","X","X","X",".",".","X","X","X","X","X","X" >>,
       << ".",".","X","X",".",".",".","X","X",".",".","." >>,
       << ".",".",".",".",".",".",".","X","X","X","X","." >>,
       << ".",".","X","X",".",".",".","X","X",".",".","." >>,
       << ".",".","X","X",".",".",".","X","X",".",".","." >>,
       << ".",".",".",".",".",".",".",".","X","X",".","." >>,
       << ".",".",".",".",".",".",".",".",".",".",".","." >>,
       << ".",".","X","X","X","X","X","X",".",".","X","X" >>,
       << ".",".","X","X",".",".",".","X",".",".","X","." >>,
       << ".",".",".",".","X","X","X",".",".",".","X","." >>,
       << "X","X",".",".",".","X",".",".",".",".",".","X" >>,
       << "X",".",".",".",".","X",".",".",".",".",".","." >>
    >>

\* BLOCKED: the (x, y) of every "X", x the column and y the row, from 0.
BLOCKED ==
    { << x, y >> \in (0..11) \X (0..11) : COLLISION_ROWS[y + 1][x + 1] = "X" }

is_blocked(x, y) == << x, y >> \in BLOCKED

\* (in_bounds: the collision mask is not consulted.)
in_bounds(x, y) == x >= 0 /\ x < ROOM_COLS /\ y >= 0 /\ y < ROOM_ROWS
is_valid_position(x, y) ==
    x >= 0 /\ x < ROOM_COLS /\ y >= 0 /\ y < ROOM_ROWS /\ ~is_blocked(x, y)

\* types::ROOM_LOCATIONS, in the order of the table.
ROOM_LOCATIONS ==
    << << "desk", 10, 1 >>, << "bookshelf", 1, 2 >>, << "window", 4, 0 >>,
       << "plant", 0, 8 >>, << "bed", 3, 10 >>, << "rug", 5, 5 >>,
       << "center", 5, 5 >> >>

\* types::room_location: the first row of the table with that name.
room_location(name) ==
    LET hits == { i \in 1..Len(ROOM_LOCATIONS) : ROOM_LOCATIONS[i][1] = name } IN
    IF hits = {} THEN <<>>
    ELSE LET i == CHOOSE k \in hits : \A h \in hits : k <= h IN
         << Position(ROOM_LOCATIONS[i][2], ROOM_LOCATIONS[i][3]) >>

\* The names a move call may carry: the known ones, an unknown one, none.
LocationArgs ==
    { ROOM_LOCATIONS[i][1] : i \in 1..Len(ROOM_LOCATIONS) } \cup {"bathroom", ""}

\* handle_move: to the named location, or nowhere when the name is unknown.
handle_move ==
    /\ \E location \in LocationArgs :
        LET target == room_location(location) IN
        IF target # <<>>
        THEN /\ position' = target[1]
             /\ move_ret' = [tag |-> "Moved to", location |-> location]
        ELSE /\ position' = position
             /\ move_ret' = [tag |-> "Unknown location", location |-> location]
    /\ UNCHANGED << taskVars, importance_sum, streamVars, channelVars, shellVars,
                    adapterVars, researchVars, transcriptVars, lateVars >>

\* idle_wander: one random step of -1, 0 or 1 each way, taken if it ends on
\* a valid tile.
idle_wander ==
    /\ \E dx \in -1..1 : \E dy \in -1..1 :
        LET nx == position.x + dx
            ny == position.y + dy
        IN  position' = IF is_valid_position(nx, ny) THEN Position(nx, ny)
                        ELSE position
    /\ UNCHANGED << move_ret, taskVars, importance_sum, streamVars, channelVars,
                    shellVars, adapterVars, researchVars, transcriptVars,
                    lateVars >>

InitMove ==
    /\ InitTask
    /\ provider = "custom"
    /\ InitStores
    /\ InitNoResearch
    /\ InitNoTranscript
    /\ InitNoMove
    /\ InitNoLate

NextMove ==
    \/ handle_move
    \/ idle_wander

SpecMove == InitMove /\ [][NextMove]_vars

\* ------------------------------------------- the rendezvous of handle_respond

\* The Brain task as handle_respond reaches its wait in the first round of
\* the first cycle: the drain found the queue empty, the first response
\* carries the call respond, the tool_call event is out, the flag and the
\* handle are set and the timeout runs. Nothing has been sent yet.
InitRespond ==
    /\ provider \in Providers
    /\ pc = "tool_wait"
    /\ running = TRUE
    /\ state = "Thinking"
    /\ queue = <<>>
    /\ user_message = None
    /\ focus_mode = FALSE
    /\ latest_snapshot = None
    /\ waiting_for_reply = TRUE
    /\ conversation_reply = "Some"
    /\ reply_slot = None
    /\ thought_count = 0
    /\ cycles_since_plan = 0
    /\ importance_sum = 0
    /\ memories = 0
    /\ current_response \in [text : BOOLEAN, tool_calls : {<< "respond", "shell" >>}]
    /\ events = (IF current_response.text
                 THEN << Entry("thought", "", "") >> ELSE <<>>)
                    \o << Entry("tool_call", "respond", "") >>
    /\ round_mark = IF current_response.text THEN 1 ELSE 0
    /\ tool_round = 1
    /\ tc_idx = 1
    /\ timer = CONVERSATION_TIMEOUT_SECS
    /\ statuses = << "Thinking" >>
    /\ applied = <<>>
    /\ sends = 0
    /\ cycle = 1
    /\ chat_calls = 1
    /\ ok_resps = 1
    /\ attempts = 0
    /\ failed = FALSE
    /\ executing = {1}
    /\ input_list = <<>>
    /\ InitStores
    /\ InitNoSide

\* The commands arrive and the time runs while the for loop goes through the
\* calls of the round; the drain of the run loop is not reached before
\* think_once returns.
NextRespond ==
    \/ Send
    \/ Tick
    \/ ToolStart
    \/ ToolFinish

SpecRespond == InitRespond /\ [][NextRespond]_vars

\* The task goes on whenever it can, and time passes.
SpecRespondLive ==
    SpecRespond /\ WF_vars(Tick) /\ WF_vars(ToolStart) /\ WF_vars(ToolFinish)

\* ------------------------------------------------------------ properties

Last(seq) == seq[Len(seq)]

\* Where the Brain task stands while a tool round is under way.
RoundPcs == {"tool_start", "tool_wait", "chat_followup", "chat_retry"}

\* C1 as the specification states it: in one think cycle the tool-round loop
\* makes at most max_tool_rounds + 1 calls to the Provider Adapter's chat.
C1_AtMostRoundsPlusOneCalls == chat_calls <= max_tool_rounds + 1

\* C1, amended: in one think cycle the tool-round loop receives at most
\* max_tool_rounds + 1 responses and makes at most 2 * max_tool_rounds + 1
\* calls to chat (each follow-up call may be made a second time); the round
\* counter is zero when the loop is entered, and a round is executed only
\* with the counter between 1 and max_tool_rounds.
C1_RoundsBounded ==
    /\ ok_resps <= max_tool_rounds + 1
    /\ chat_calls <= 2 * max_tool_rounds + 1
    /\ (pc = "loop_head" /\ ok_resps = 1) => tool_round = 0
    /\ pc \in RoundPcs => tool_round \in 1..max_tool_rounds
    /\ tool_round <= max_tool_rounds + 1

\* The loop was cut by the round limit after every follow-up call was retried.
C1_Witness ==
    /\ pc = "post_loop"
    /\ tool_round = max_tool_rounds + 1
    /\ ok_resps = max_tool_rounds + 1
    /\ chat_calls = 2 * max_tool_rounds + 1

\* The events of the current tool round, by type and tool.
RoundLog ==
    [i \in 1..(Len(events) - round_mark) |->
        << events[round_mark + i][1], events[round_mark + i][2] >>]

\* tool_call, tool_result pairs for the first k calls in emitted order, and
\* the tool_call alone of the next one when it has started.
Alternation(calls, k, started) ==
    [i \in 1..(2 * k + started) |->
        << IF i % 2 = 1 THEN "tool_call" ELSE "tool_result", calls[(i + 1) \div 2] >>]

\* C2: within a tool round the events are tool_call, tool_result of the
\* first call, then of the second, and so on in the order the model emitted
\* the calls, each result before the next call starts; at most one tool
\* execution is under way at any instant.
C2_OneAtATimeInOrder ==
    /\ Cardinality(executing) <= 1
    /\ pc = "tool_start" =>
        /\ executing = {}
        /\ RoundLog = Alternation(current_response.tool_calls, tc_idx - 1, 0)
    /\ pc = "tool_wait" =>
        /\ executing = {tc_idx}
        /\ RoundLog = Alternation(current_response.tool_calls, tc_idx - 1, 1)
    /\ pc \in {"chat_followup", "chat_retry"} =>
        /\ executing = {}
        /\ RoundLog = Alternation(current_response.tool_calls,
                                  Len(current_response.tool_calls), 0)

\* Both calls of a two-call response have run.
C2_Witness ==
    /\ pc = "chat_followup"
    /\ current_response.tool_calls = << "respond", "shell" >>
    /\ Len(events) - round_mark = 4

\* C3 as the specification states it: the Brain task is over only after a
\* Stop command was drained, Stop being the last command received.
C3_EndsOnlyOnStop ==
    pc \in {"done", "panicked"} =>
        /\ applied # <<>>
        /\ Last(applied).kind = "Stop"

StopPending == \E i \in 1..Len(queue) : queue[i].kind = "Stop"

\* C4: Stop takes effect only in the command drain: no step outside the
\* drain ends the run loop, takes a command from the queue or changes
\* `running`; the pacing sleep ends only when its time is up, Stop pending or
\* not; the drain that receives Stop ends the loop at once; and once the
\* loop has ended the state is Idle and no phase starts again.
C4_StopIsCooperative ==
    /\ [](pc = "done" => state = "Idle" /\ ~running /\ Last(applied).kind = "Stop")
    /\ [][ /\ pc # "drain" => (running' = running /\ pc' # "done"
                                /\ Len(queue') >= Len(queue))
           /\ (pc = "sleep" /\ pc' # "sleep") => timer = 0
           /\ (pc = "drain" /\ Len(queue') < Len(queue)
                   /\ Head(queue).kind = "Stop") => pc' = "done"
           /\ pc = "done" => (pc' = "done" /\ state' = "Idle" /\ cycle' = cycle)
        ]_vars

\* A Stop is pending while the pacing sleep still has time to run.
C4_Witness ==
    /\ pc = "sleep"
    /\ timer > 0
    /\ StopPending

\* C5: commands leave the queue only in the drain that opens a cycle, oldest
\* first (the commands received and those still queued are in arrival
\* order, with none missing); the Thinking phase starts only when the
\* queue was found empty; and outside the drain no command is applied.
C5_DrainedFullyInOrder ==
    /\ [](LET all == applied \o queue IN
            /\ \A i \in 1..(Len(all) - 1) : all[i + 1].seq = all[i].seq + 1
            /\ queue # <<>> => Last(queue).seq = sends)
    /\ [][ /\ Len(queue') < Len(queue) =>
                /\ pc = "drain"
                /\ applied' = Append(applied, Head(queue))
           /\ (pc = "drain" /\ pc' = "chat_first") => queue = <<>>
           /\ pc # "drain" => << focus_mode, latest_snapshot, running >>'
                                = << focus_mode, latest_snapshot, running >>
           /\ user_message' # user_message =>
                \/ pc = "drain" /\ queue # <<>> /\ user_message' = Head(queue).arg
                \/ pc' = "chat_first" /\ user_message' = None
        ]_vars

\* Two commands were received by one drain.
C5_Witness ==
    /\ pc = "drain"
    /\ Len(applied) = 2
    /\ applied[1].kind = "UserMessage"
    /\ applied[2].kind = "SetFocusMode"
    /\ user_message = applied[1].arg
    /\ focus_mode = applied[2].arg

IsPrefix(a, b) == Len(a) <= Len(b) /\ SubSeq(b, 1, Len(a)) = a

PhaseOrders ==
    { << "Thinking", "Idle" >>,
      << "Thinking", "Reflecting", "Idle" >>,
      << "Thinking", "Planning", "Idle" >>,
      << "Thinking", "Reflecting", "Planning", "Idle" >> }

\* C6: the state is one of the four values; the statuses broadcast in a
\* cycle are Thinking, then Reflecting, then Planning, then Idle, the two in
\* the middle optional; the state is the one last announced; it is Idle in
\* the drain, in the pacing sleep and after the loop; Reflecting is entered
\* exactly when the importance sum has reached the threshold after
\* thinking, Planning exactly when the cycle count has reached the interval.
C6_PhaseOrder ==
    /\ [](/\ state \in BrainStates
          /\ \E o \in PhaseOrders : IsPrefix(statuses, o)
          /\ statuses # <<>> => state = Last(statuses)
          /\ pc \in {"drain", "sleep", "done"} => state = "Idle"
          /\ pc \in {"chat_first", "loop_head", "post_loop"} => state = "Thinking")
    /\ [][ /\ (pc = "reflect_check" /\ pc' # pc) =>
                ((state' = "Reflecting") <=> (importance_sum >= reflection_threshold))
           /\ (pc = "plan_check" /\ pc' # pc) =>
                ((state' = "Planning") <=> (cycles_since_plan + 1 >= PLAN_INTERVAL))
           /\ state' # state => (statuses' # <<>> /\ Last(statuses') = state')
        ]_vars

\* A cycle went through all four phases.
C6_Witness == statuses = << "Thinking", "Reflecting", "Planning", "Idle" >>

\* C7 as the specification states it: a follow-up step of the tool loop
\* makes at most two attempts against the backend.
C7_AtMostTwoAttempts == attempts <= 2

\* The error events of the current phase.
ErrorEvents == { i \in 1..Len(events) : events[i][1] = "error" }

\* C8 as the specification states it: after a reasoning call of the think
\* phase has failed, exactly one error event is out and the agent lives on.
C8_FailureIsSurfaced ==
    failed =>
        /\ pc # "panicked"
        /\ Cardinality(ErrorEvents) = 1

\* C9: waiting_for_reply is true exactly while a reply handle is stored,
\* which is only while the one respond call under way waits; when a respond
\* call has returned, the flag is false and no handle is stored; and the
\* wait ends only on a reply or when the timeout has run out, the latter
\* yielding the "no reply" text.
C9_SingleRendezvous ==
    /\ [](/\ waiting_for_reply <=> conversation_reply # None
          /\ waiting_for_reply =>
                /\ pc = "tool_wait"
                /\ current_response.tool_calls[tc_idx] = "respond"
          /\ (events # <<>> /\ Last(events)[1] = "tool_result"
                /\ Last(events)[2] = "respond") =>
                (~waiting_for_reply /\ conversation_reply = None))
    /\ [][ (waiting_for_reply /\ ~waiting_for_reply') =>
                /\ reply_slot # None \/ timer = 0
                /\ Last(events')[1] = "tool_result"
                /\ Last(events')[2] = "respond"
                /\ reply_slot = None => Last(events')[3] = "no_reply"
        ]_vars

\* A respond call has timed out and returned.
C9_Witness ==
    /\ pc = "tool_start"
    /\ events # <<>>
    /\ Last(events) = << "tool_result", "respond", "no_reply" >>
    /\ ~waiting_for_reply
    /\ conversation_reply = None

\* C10: the drain of a ConversationReply while no handle is stored changes
\* nothing but the queue; nothing is kept of it for a later rendezvous; and
\* no user message comes from it.
C10_LateReplyDiscarded ==
    /\ [](reply_slot # None => waiting_for_reply)
    /\ [][ (/\ pc = "drain"
            /\ Len(queue') < Len(queue)
            /\ Head(queue).kind = "ConversationReply"
            /\ conversation_reply = None) =>
                << pc, running, state, user_message, focus_mode, latest_snapshot,
                   waiting_for_reply, conversation_reply, reply_slot,
                   thought_count, cycles_since_plan, importance_sum, memories,
                   events, timer, statuses >>'
                = << pc, running, state, user_message, focus_mode, latest_snapshot,
                     waiting_for_reply, conversation_reply, reply_slot,
                     thought_count, cycles_since_plan, importance_sum, memories,
                     events, timer, statuses >>
        ]_vars

\* A ConversationReply was received by the drain of a later cycle, with no
\* rendezvous outstanding, and nothing came of it.
C10_Witness ==
    /\ pc = "drain"
    /\ cycle >= 1
    /\ applied # <<>>
    /\ Last(applied).kind = "ConversationReply"
    /\ reply_slot = None
    /\ conversation_reply = None
    /\ user_message = None

\* C11: broadcasting never blocks or fails the agent, with a subscriber of any
\* speed or with none; the channel retains at most EVENT_CAPACITY values; a
\* subscriber whose next value was overwritten is told how many it missed,
\* stays subscribed, stands on the oldest retained value and from there on
\* receives the values in send order without a gap.
C11_BroadcastNeverBlocks ==
    /\ [](event_tx < MaxEvents => ENABLED broadcast)
    /\ [](rx # NoReceiver => rx.next <= event_tx)
    /\ [][rx_out' # rx_out /\ rx_out' # NoOutcome /\ rx_out'.tag = "Lagged"
            => /\ rx.next < oldest
               /\ rx_out'.n = oldest - rx.next
               /\ rx_out'.n > 0
               /\ rx' # NoReceiver
               /\ rx'.next = oldest
               /\ rx'.missed = rx.missed + rx_out'.n
               /\ event_tx - rx'.next = EVENT_CAPACITY]_vars
    /\ [][rx # NoReceiver /\ rx' # NoReceiver /\ rx'.next # rx.next /\ rx.next >= oldest
            => /\ rx_out' = [tag |-> "Ok", n |-> rx.next]
               /\ rx'.next = rx.next + 1
               /\ event_tx - rx.next <= EVENT_CAPACITY]_vars

\* A subscriber that was told it lagged has since received the oldest
\* retained value.
C11_Witness ==
    /\ rx # NoReceiver
    /\ rx.missed = 1
    /\ rx_out = [tag |-> "Ok", n |-> rx.next - 1]
    /\ event_tx = MaxEvents

\* C12: the importance sum only grows, by the stored importance of the memory
\* of each add, and nothing else changes it but the reset to zero that ends
\* every reflection pass, whether the pass stored an insight, stored none or
\* its provider call failed (a stream opened anew starts at zero).
C12_SumAccumulatesUntilReflection ==
    /\ [](importance_sum >= 0)
    /\ [][ret'.tag = "add"
            => /\ mem_list' = Append(mem_list, Last(mem_list'))
               /\ Last(mem_list').importance >= 1
               /\ importance_sum' = importance_sum + Last(mem_list').importance]_vars
    /\ [][ret'.tag = "reflect" => should_reflect /\ importance_sum' = 0]_vars
    /\ [][importance_sum' # importance_sum => ret'.tag \in {"add", "reflect", "new"}]_vars
    /\ [][importance_sum' < importance_sum => importance_sum' = 0]_vars

\* A reflection pass that stored an insight has ended with the reset.
C12_Witness ==
    /\ ret.tag = "reflect"
    /\ ret.list # <<>>
    /\ Last(mem_list).kind = "reflection"
    /\ importance_sum = 0

StrictlyIncreasing(ids) ==
    \A i, j \in 1..Len(ids) : i < j => parse_id(ids[i]) < parse_id(ids[j])

IdsOf(ms) == [i \in 1..Len(ms) |-> ms[i].id]

\* C14 as the specification states it: over adds and reloads the ids that add
\* gives out grow strictly, so no id is given twice, and the ids of the
\* ledger's memories grow strictly in ledger order.
C14_IdsStrictlyIncreasing ==
    /\ StrictlyIncreasing(issued)
    /\ StrictlyIncreasing(IdsOf(parse_lines(lines(ledger))))

\* C15 as the specification states it: every call leaves the memories of the
\* list and the lines of the ledger as they were and in their places, add
\* putting its one record after them.
C15_AppendOnly ==
    /\ [][ret'.tag # "new" => IsPrefix(mem_list, mem_list')]_vars
    /\ [][ret'.tag = "add"
            => /\ Len(mem_list') = Len(mem_list) + 1
               /\ Len(lines(ledger')) = Len(lines(ledger)) + 1]_vars
    /\ [][IsPrefix(lines(ledger), lines(ledger'))]_vars

\* C16 as the specification states it: a stream opened on a ledger with
\* corrupt lines holds the ledger's well-formed lines in file order, and
\* gives out ids from the greatest loaded id plus one.
C16_CorruptLinesSkipped ==
    ret.tag = "new"
        => /\ mem_list = parse_lines(lines(ledger))
           /\ next_id = resume_id(parse_lines(lines(ledger)))

\* C17 as the specification states it: the memory of an add that wrote to the
\* ledger is, when the ledger is loaded, the same in every field.
C17_RoundTrip ==
    [][ret'.tag = "add" /\ ledger' # ledger
          => /\ load(ledger').memories # <<>>
             /\ Last(load(ledger').memories) = Last(mem_list')]_vars

\* C18 as the specification states it: whatever its scoring call, its embed
\* call and its ledger write do, a call of add returns with success, one
\* memory more in the list, the next id advanced by one and the memory's
\* importance added to the sum.
C18_AddAlwaysCaptures ==
    [][ret'.tag \in {"add", "panic"}
          => /\ ret'.tag = "add"
             /\ Len(mem_list') = Len(mem_list) + 1
             /\ next_id' = next_id + 1
             /\ importance_sum' = importance_sum + Last(mem_list').importance]_vars

\* C19 as the specification states it: the importance of a memory that add
\* made is the number the scoring call returned, clamped into 1..10, and 5
\* when the call failed or returned no number.
C19_ImportanceIsTheNumberReturned ==
    ret.tag = "add"
        => LET m == mem_list[ret.list[1]] IN
           /\ m.importance \in 1..10
           /\ m.importance = IF ret.number = -1 THEN 5 ELSE Clamp(ret.number, 1, 10)

\* C20: retrieve on a stream without memories returns the empty list, for
\* every top_k, and makes no embed call.
C20_EmptyRetrieveMakesNoCall ==
    ret.tag = "retrieve" /\ mem_list = <<>>
        => ret.list = <<>> /\ embed_calls = 0

\* retrieve has returned on a stream that holds no memory although its
\* ledger has lines.
C20_Witness ==
    /\ ret.tag = "retrieve"
    /\ mem_list = <<>>
    /\ ledger # <<>>

\* The positions in `list` are the first min(top_k, n) of the n memories
\* when these are put in non-increasing order of sc, memories of equal sc
\* in ledger order.
IsTopK(list, sc, top_k, n) ==
    /\ Len(list) = (IF top_k < n THEN top_k ELSE n)
    /\ \A a \in 1..Len(list) : list[a] \in 1..n
    /\ \A a, b \in 1..Len(list) :
         a < b => /\ sc[list[a]] >= sc[list[b]]
                  /\ sc[list[a]] = sc[list[b]] => list[a] < list[b]
    /\ \A a \in 1..Len(list) : \A j \in 1..n :
         (\A b \in 1..Len(list) : list[b] # j) => sc[j] <= sc[list[a]]

\* C21: when embedding the query fails, retrieve returns, and what it
\* returns is the last min(top_k, n) memories of the stream in their order.
C21_FallbackToMostRecent ==
    ret.tag \in {"retrieve", "retrieve_panic"} /\ ret.query.tag \in {"err", "panic"}
        => /\ ret.tag = "retrieve"
           /\ LET n == Len(mem_list)
                  k == IF ret.top_k < n THEN ret.top_k ELSE n
              IN ret.list = [i \in 1..k |-> n - k + i]

\* C22: when embedding the query succeeds, retrieve returns min(top_k, n)
\* memories in non-increasing order of recency + importance/10 + relevance,
\* memories of equal score in ledger order, and no memory left out scores
\* higher than one returned.
C22_TopKByScore ==
    ret.tag = "retrieve" /\ ret.query.tag = "ok"
        => IsTopK(ret.list,
                  [i \in 1..Len(mem_list) |->
                      score(mem_list[i], ret.query.emb, TRUE, ret.at)],
                  ret.top_k, Len(mem_list))

\* retrieve has left a memory out, has put a later memory before an earlier
\* one, and has kept two memories of equal score in ledger order.
C22_Witness ==
    /\ ret.tag = "retrieve"
    /\ ret.query.tag = "ok"
    /\ Len(ret.list) = 2
    /\ Len(mem_list) = 3
    /\ ret.list[1] > ret.list[2]
    /\ \E j \in 1..3 :
         /\ j > ret.list[2]
         /\ score(mem_list[j], ret.query.emb, TRUE, ret.at)
              = score(mem_list[ret.list[2]], ret.query.emb, TRUE, ret.at)

C24_MoreRecentScoresHigher ==
    ret.tag = "retrieve" /\ ret.query.tag = "ok"
        => \A i, j \in 1..Len(mem_list) :
             LET a == mem_list[i]
                 b == mem_list[j]
             IN ( /\ a.embedding = b.embedding
                  /\ a.importance = b.importance
                  /\ AllDigits(a.timestamp) /\ AllDigits(b.timestamp)
                  /\ digits_value(a.timestamp) < digits_value(b.timestamp) )
                => score(a, ret.query.emb, TRUE, ret.at)
                     < score(b, ret.query.emb, TRUE, ret.at)

\* ---- the shell tool

\* run_command has returned.
Called == result # NoResult

\* The command was rejected: run_command returned a message of
\* is_safe_command and handed nothing to `sh -c`.
Rejected ==
    /\ spawned = <<>>
    /\ result.tag = "string"
    /\ result.msg # <<>>
    /\ starts_with(<< result.msg[1] >>, << "Blocked: '" >>)
         \/ \E rest \in { "empty command.",
                          "'..' path traversal is not allowed in commands.",
                          "backtick command substitution is not allowed.",
                          "command substitution $() is not allowed.",
                          "variable expansion ${} is not allowed.",
                          "'~' (home expansion) is not allowed.",
                          "absolute paths are not allowed. Use relative paths only." } :
                result.msg = << "Blocked: " \o rest >>

SudoRm == <<"s", "u", "d", "o", "SP", "r", "m", "SP", "-", "r", "f", "SP", "/">>

\* C25: a command that validation rejects is not executed and not
\* rewritten: run_command validates the command as given, returns the
\* rejection text and spawns no process; for `sudo rm -rf /` the text holds
\* "Blocked" and "sudo".
C25_RejectedNeverRuns ==
    /\ Called /\ is_safe_command(tool_command) # NoMessage
         => /\ spawned = <<>>
            /\ result = Returned("string", is_safe_command(tool_command), <<>>, FALSE)
    /\ Called /\ tool_command = SudoRm
         => /\ spawned = <<>>
            /\ result.msg # <<>>
            /\ result.msg[1] = "Blocked: '"
            /\ contains(result.msg, <<"s", "u", "d", "o">>)

\* run_command has returned on `sudo rm -rf /`.
C25_Witness ==
    /\ Called
    /\ tool_command = SudoRm
    /\ spawned = <<>>

\* The tokens of the command, each without its leading shell
\* metacharacters.
CleanTokens(c) ==
    LET tokens == split_whitespace(trim(c))
    IN { trim_start_matches(tokens[i], LeadChars) : i \in 1..Len(tokens) }

StartsWithDenied(c) ==
    \E i \in 1..Len(BLOCKED_PREFIXES) : starts_with(trim(c), BLOCKED_PREFIXES[i])

HasTraversal(c) ==
    \E t \in CleanTokens(c) :
        \/ t = << ".", "." >>
        \/ starts_with(t, << ".", ".", "/" >>)
        \/ contains(t, << "/", ".", "." >>)

HasEscape(c) ==
    \/ contains(c, << "BT" >>)
    \/ contains(c, << "$", "(" >>)
    \/ contains(c, << "$", "{" >>)
    \/ contains(c, << "~" >>)

\* The token holds an absolute path: a "/" at the front of the token or
\* behind a character that no path goes on through.
HoldsAbsolutePath(t) ==
    \E i \in 1..Len(t) :
        /\ t[i] = "/"
        /\ i = 1 \/ t[i - 1] \notin (WordChars \cup {".", "/", "-"})

HasAbsolutePath(c) ==
    \E t \in CleanTokens(c) : HoldsAbsolutePath(t) /\ t # DEV_NULL

\* C26: validation rejects every command that starts with a deny-listed
\* prefix or holds a traversal token, a backtick, `$(`, `${`, `~` or an
\* absolute path other than the null device, with a message of such a
\* category of the command, and accepts every other non-empty command.
C26_RejectsExactlyTheCategories ==
    Called /\ trim(tool_command) # <<>>
        => /\ Rejected <=> \/ StartsWithDenied(tool_command)
                           \/ HasTraversal(tool_command)
                           \/ HasEscape(tool_command)
                           \/ HasAbsolutePath(tool_command)
           /\ Rejected =>
                LET m == result.msg[1] IN
                /\ m = "Blocked: '" => StartsWithDenied(tool_command)
                /\ m = "Blocked: '..' path traversal is not allowed in commands."
                     => HasTraversal(tool_command)
                /\ m \in { "Blocked: backtick command substitution is not allowed.",
                           "Blocked: command substitution $() is not allowed.",
                           "Blocked: variable expansion ${} is not allowed.",
                           "Blocked: '~' (home expansion) is not allowed." }
                     => HasEscape(tool_command)
                /\ m = "Blocked: absolute paths are not allowed. Use relative paths only."
                     => HasAbsolutePath(tool_command)

\* C27: a token that matches the absolute-path pattern is let through only
\* when it is exactly /dev/null; every other such token has the command
\* rejected.
C27_OnlyDevNullExempt ==
    Called
        => /\ (\E t \in CleanTokens(tool_command) :
                   abs_path_re_is_match(t) /\ t # DEV_NULL) => Rejected
           /\ ( /\ trim(tool_command) # <<>>
                /\ \A t \in CleanTokens(tool_command) :
                      abs_path_re_is_match(t) => t = DEV_NULL
                /\ ~StartsWithDenied(tool_command)
                /\ ~HasTraversal(tool_command)
                /\ ~HasEscape(tool_command) ) => ~Rejected

\* The characters of a text.
RECURSIVE chars_count(_)
chars_count(text) ==
    IF text = <<>> THEN 0 ELSE Head(text).count + chars_count(Tail(text))

\* C28: run_command returns a string whatever the command and the outcome:
\* "(no output)" for an empty result, the first 3,000 characters and the
\* marker for a result over 3,000 characters, an "Error: " text for a spawn
\* failure; it never panics.
C28_AlwaysAString ==
    Called
        => /\ result.tag = "string"
           /\ result.msg = <<>> => ~is_blank(result.text)
           /\ result.msg # <<>> =>
                \/ Rejected
                \/ result.msg = << "(no output)" >>
                \/ result.msg[1] = "Error: "
           /\ chars_count(result.text) <= OUTPUT_LIMIT
           /\ result.marker => chars_count(result.text) = OUTPUT_LIMIT

\* ---------------------------------------------------------------- C29

\* The function_call_output items a finished round has to hold: one for each
\* call of the response, in call order, with the call's id and name and the
\* text the tool_result event of that call shows.
OutputsOfRound ==
    [i \in 1..Len(current_response.tool_calls) |->
        function_call_output(call_id_of(i), current_response.tool_calls[i],
                             events[round_mark + 2 * i][3])]

\* While the for loop runs, the calls before the current one are answered.
AnsweredSoFar ==
    /\ pc \in {"tool_start", "tool_wait"} => Len(input_list) = tc_idx - 1
    /\ pc = "chat_followup" => input_list = OutputsOfRound

\* A step taken while a tool handler runs leaves the task in the for loop or
\* at the follow-up call, and emits no error event.
ToolStepGoesOn ==
    pc = "tool_wait" =>
        /\ pc' \in {"tool_wait", "tool_start", "chat_followup"}
        /\ \/ events' = events
           \/ /\ Len(events') = Len(events) + 1
              /\ events'[Len(events')][1] = "tool_result"

\* C29: for every tool call of a response whose round is executed, exactly
\* one function_call_output item with that call's call_id and its textual
\* result is appended to the running context, in call order, before the
\* follow-up reasoning call; whatever the tool does, the result is ordinary
\* text, and the cycle is never aborted and no error event is raised.
C29_EveryCallAnswered == [](AnsweredSoFar) /\ [][ToolStepGoesOn]_vars

\* ---------------------------------------------------------------- C30

Is5xx(o) == o \in {"500", "503"}
IsOtherFailure(o) == o \in {"400", "400m500", "400cut"}

\* C30: a chat call whose backend answers with any HTTP 5xx status is
\* retried exactly once after the fixed delay, on either backend protocol
\* (the request is posted a second time, and no third time); any other
\* non-success status fails that call at once with no retry.
C30_RetriesExactly5xx ==
    chat_ret # NoChat =>
        /\ Is5xx(answers[1]) =>
            /\ chat_ret.attempts = 2
            /\ posted = << "request", "request" >>
            /\ slept = COMPLETIONS_RETRY_SECS
        /\ IsOtherFailure(answers[1]) =>
            /\ ~chat_ret.ok
            /\ chat_ret.attempts = 1
            /\ posted = << "request" >>
            /\ slept = 0

\* ---------------------------------------------------------------- C31

\* The step of the run loop that decides whether this cycle plans.
DecidesPlanning == pc = "plan_check" /\ pc' # "plan_check"

\* C31: the Planning phase runs every PLAN_INTERVAL think cycles: a cycle
\* enters Planning exactly when PLAN_INTERVAL cycles have completed since the
\* previous Planning phase or since the start, so that the cycles that plan
\* are the PLAN_INTERVAL-th, the one PLAN_INTERVAL cycles later, and so on.
C31_PlanningEveryNCycles ==
    [][DecidesPlanning => (pc' = "plan_chat" <=> cycle % PLAN_INTERVAL = 0)]_vars

\* ---------------------------------------------------------------- C32

\* A think cycle has been followed to its end.
CycleEnds == cycle' = cycle + 1 /\ cycle_obs' # NoCycle

\* C32: consecutive_research_cycles counts the consecutive think cycles that
\* held only research calls (web_search, web_fetch, fetch_url) and created no
\* file: it goes up by one after each such cycle, a cycle of another kind
\* never raises it, it is zero after every cycle that created a file, and
\* the continue nudge is the mild one from 3 and the urgent one from 5.
C32_CountsResearchOnlyCycles ==
    /\ [][CycleEnds =>
            LET n == consecutive_research_cycles
                c == cycle_obs'
            IN  /\ c.created => consecutive_research_cycles' = 0
                /\ (~c.created /\ only_research(c.calls)) =>
                        consecutive_research_cycles' = n + 1
                /\ (~c.created /\ ~only_research(c.calls)) =>
                        consecutive_research_cycles' \in {n, 0}]_vars
    /\ [][(cycle' = cycle + 1 /\ ~focus_mode) =>
            nudge' = IF consecutive_research_cycles >= 5 THEN "stop_researching"
                     ELSE IF consecutive_research_cycles >= 3 THEN "write_up"
                     ELSE "none"]_vars

\* ---------------------------------------------------------------- C33

\* The entries among the values sent so far, in the order they were sent.
RECURSIVE EntriesSent(_)
EntriesSent(log) ==
    IF log = <<>> THEN <<>>
    ELSE IF Head(log).kind = "Entry"
         THEN << Head(log).entry[1] >> \o EntriesSent(Tail(log))
         ELSE EntriesSent(Tail(log))

\* A step leaves the transcript as it is or adds one entry at its end.
AppendsOnly ==
    \/ transcript' = transcript
    \/ /\ Len(transcript') = Len(transcript) + 1
       /\ SubSeq(transcript', 1, Len(transcript)) = transcript

\* C33: the transcript is append-only: every emitted entry is appended
\* exactly once to the events list, is never changed or removed afterwards,
\* and is broadcast exactly once, in the order it has in the transcript.
C33_TranscriptAppendOnly ==
    [](EntriesSent(event_log) = transcript) /\ [][AppendsOnly]_vars

\* Three entries, two of them alike, with another broadcast between them.
C33_Witness ==
    /\ Len(transcript) = 3
    /\ transcript[1] = transcript[3]
    /\ transcript[1] # transcript[2]
    /\ Len(event_log) = 4
    /\ event_log[2].kind = "Status"

\* ---------------------------------------------------------------- C34

\* The position is a tile of the room that the collision mask leaves free.
OnFreeTile ==
    /\ position.x \in 0..(ROOM_COLS - 1)
    /\ position.y \in 0..(ROOM_ROWS - 1)
    /\ COLLISION_ROWS[position.y + 1][position.x + 1] = "."

\* A move call that answered "Unknown location" has not moved the agent.
UnknownMoveStays ==
    (move_ret' # move_ret /\ move_ret'.tag = "Unknown location")
        => position' = position

\* C34: after any sequence of move calls, to known or unknown locations, and
\* idle-wander steps from (5,5), the position is inside the 12x12 grid and
\* not on a blocked tile; a move to an unknown location leaves it unchanged.
C34_PositionStaysValid == [](OnFreeTile) /\ [][UnknownMoveStays]_vars

\* The agent has wandered off a named location and a move to an unknown
\* location has just been refused there.
C34_Witness ==
    /\ move_ret = [tag |-> "Unknown location", location |-> "bathroom"]
    /\ position = Position(8, 9)

\* ---------------------------------------------------------------- C35

\* A ConversationReply is in the queue while the rendezvous waits and its
\* timeout has not run out.
ReplySentInTime ==
    /\ pc = "tool_wait"
    /\ waiting_for_reply
    /\ timer > 0
    /\ \E i \in 1..Len(queue) : queue[i].kind = "ConversationReply"

\* The respond call has returned the reply.
RespondGotReply ==
    \E i \in 1..Len(events) : events[i] = Entry("tool_result", "respond", "reply")

\* C35: a ConversationReply sent to the agent while a respond rendezvous is
\* waiting, before its 15-second timeout, resolves that rendezvous with the
\* reply text: the respond tool's result holds the reply and not the "no
\* reply" text.
C35_ReplyResolvesRendezvous == ReplySentInTime ~> RespondGotReply

\* ---------------------------------------------------------------- C36

\* The step think_once takes after its tool loop, when the loop was left
\* because a follow-up reasoning call had failed.
AfterFailedFollowup == pc = "post_loop" /\ failed /\ pc' # "post_loop"

\* C36: if a follow-up reasoning call fails, after any retry, the rest of
\* the think phase is aborted without a final thought: after the error event
\* no thought event is emitted, thought_count is unchanged and no memory is
\* added in that cycle's think phase.
C36_FailedFollowupEndsThinkPhase ==
    [][AfterFailedFollowup =>
            /\ thought_count' = thought_count
            /\ memories' = memories
            /\ (events' # events => Last(events')[1] # "thought")]_vars

\* ------------------------------------------- the front ends and the RwLock

\* What a front end is given as the text of a message.
InputLines == {"", "hello", "/focus", "/focus off"}

\* `text.trim().is_empty()`, `text.starts_with("/focus")`,
\* `text.contains("off")`, over the texts above.
is_empty(text) == text = ""
starts_with_focus(text) == text \in {"/focus", "/focus off"}
contains_off(text) == text = "/focus off"

\* What the front-end steps leave alone.
backVars ==
    << provider, pc, running, state, cmdVars, rendezvousVars, thought_count,
       cycles_since_plan, memVars, events, timer, statuses, applied, cycle,
       thinkVars, failed, streamVars, channelVars, shellVars, adapterVars,
       researchVars, transcriptVars, moveVars, inboxVars >>

\* `command_tx.send(cmd).await`
send(kind, arg) ==
    /\ queue' = Append(queue, Sent([kind |-> kind, arg |-> arg], sends + 1))
    /\ sends' = sends + 1

\* RwLock::read resolves: no write guard is out and no writer queues ahead.
\* RwLock::write resolves: no guard is out.
read_ready == ~brain_lock.writer /\ run_task # "await_write"
write_ready == ~brain_lock.writer /\ brain_lock.readers = {}

\* The requests being handled.
Handling == {h \in Handlers : handlers[h].at # "idle"}

\* `tokio::time::sleep(...)` of the spawned task ends; it asks for the write
\* guard.
spawn_wakes ==
    /\ run_task = "delay"
    /\ run_task' = "await_write"
    /\ UNCHANGED << brain_lock, handlers, shutdown, queue, sends, backVars >>

\* `let mut brain = brain_for_task.write().await;` resolves and
\* `brain.run().await` begins; the guard lives until run() returns.
write_brain ==
    /\ run_task = "await_write"
    /\ write_ready
    /\ brain_lock' = [brain_lock EXCEPT !.writer = TRUE]
    /\ run_task' = "running"
    /\ UNCHANGED << handlers, shutdown, queue, sends, backVars >>

\* The place of the first Stop in the channel, 0 when there is none.
StopAt(q) ==
    IF \E i \in 1..Len(q) : q[i].kind = "Stop"
    THEN CHOOSE i \in 1..Len(q) :
            /\ q[i].kind = "Stop"
            /\ \A j \in 1..(i - 1) : q[j].kind # "Stop"
    ELSE 0

\* One pass of the run loop, for the channel and the guard: the drain takes
\* what is in the channel; on Stop the loop ends, run() returns and the task
\* drops the write guard. The rendezvous flag is down whenever a pass ends.
run_drains ==
    /\ run_task = "running"
    /\ IF StopAt(queue) = 0
       THEN /\ queue' = <<>>
            /\ UNCHANGED << run_task, brain_lock >>
       ELSE /\ queue' = SubSeq(queue, StopAt(queue) + 1, Len(queue))
            /\ run_task' = "exited"
            /\ brain_lock' = [brain_lock EXCEPT !.writer = FALSE]
    /\ UNCHANGED << handlers, shutdown, sends, backVars >>

\* run() panics: the task unwinds and drops the write guard.
run_panics ==
    /\ run_task = "running"
    /\ run_task' = "panicked"
    /\ brain_lock' = [brain_lock EXCEPT !.writer = FALSE]
    /\ UNCHANGED << handlers, shutdown, queue, sends, backVars >>

\* post_message / App::send_message up to the lock: an empty text returns at
\* once; the TUI sends "/focus..." as SetFocusMode without touching the lock;
\* every other text goes on to `brain.read().await`.
submit(h) ==
    /\ handlers[h].at = "idle"
    /\ sends + Cardinality(Handling) < MaxSends
    /\ \E text \in InputLines :
        IF is_empty(text)
        THEN UNCHANGED << handlers, queue, sends >>
        ELSE IF h = "send_message" /\ starts_with_focus(text)
        THEN /\ send("SetFocusMode", ~contains_off(text))
             /\ UNCHANGED handlers
        ELSE /\ handlers' = [handlers EXCEPT ![h] = [at |-> "await_read", text |-> text]]
             /\ UNCHANGED << queue, sends >>
    /\ UNCHANGED << brain_lock, run_task, shutdown, backVars >>

\* `let brain = brain_arc.read().await;` resolves.
read_brain(h) ==
    /\ handlers[h].at = "await_read"
    /\ read_ready
    /\ brain_lock' = [brain_lock EXCEPT !.readers = @ \cup {h}]
    /\ handlers' = [handlers EXCEPT ![h].at = "holding"]
    /\ UNCHANGED << run_task, shutdown, queue, sends, backVars >>

\* ConversationReply when `brain.is_waiting_for_reply()`, else UserMessage;
\* the command is sent and the read guard dropped.
send_command(h) ==
    /\ handlers[h].at = "holding"
    /\ send(IF waiting_for_reply THEN "ConversationReply" ELSE "UserMessage",
            handlers[h].text)
    /\ brain_lock' = [brain_lock EXCEPT !.readers = @ \ {h}]
    /\ handlers' = [handlers EXCEPT ![h] = NoRequest]
    /\ UNCHANGED << run_task, shutdown, backVars >>

\* `tokio::signal::ctrl_c().await` resolves in the web server's shutdown
\* future, which goes on to `brain_arc.read().await`.
ctrl_c ==
    /\ shutdown = "idle"
    /\ shutdown' = "await_read"
    /\ UNCHANGED << brain_lock, run_task, handlers, queue, sends, backVars >>

shutdown_reads ==
    /\ shutdown = "await_read"
    /\ read_ready
    /\ brain_lock' = [brain_lock EXCEPT !.readers = @ \cup {"shutdown"}]
    /\ shutdown' = "holding"
    /\ UNCHANGED << run_task, handlers, queue, sends, backVars >>

\* `brain.command_tx.send(BrainCommand::Stop).await`, then the guard drops.
shutdown_stops ==
    /\ shutdown = "holding"
    /\ send("Stop", None)
    /\ brain_lock' = [brain_lock EXCEPT !.readers = @ \ {"shutdown"}]
    /\ shutdown' = "done"
    /\ UNCHANGED << run_task, handlers, backVars >>

InitFront ==
    /\ InitTask
    /\ provider = "custom"
    /\ InitStores
    /\ InitNoSide

run_steps == spawn_wakes \/ write_brain \/ run_drains
handler_steps == \E h \in Handlers : read_brain(h) \/ send_command(h)
shutdown_steps == shutdown_reads \/ shutdown_stops

NextFront ==
    \/ spawn_wakes
    \/ write_brain
    \/ run_drains
    \/ run_panics
    \/ \E h \in Handlers : submit(h)
    \/ \E h \in Handlers : read_brain(h)
    \/ \E h \in Handlers : send_command(h)
    \/ ctrl_c
    \/ shutdown_reads
    \/ shutdown_stops

SpecFront == InitFront /\ [][NextFront]_vars

\* The tasks are scheduled: the spawned run task, each handler and the
\* shutdown future take the steps they are ready for. Requests, the signal
\* and a panic are not bound to happen.
SpecFrontLive ==
    /\ SpecFront
    /\ WF_vars(run_steps)
    /\ \A h \in Handlers : WF_vars(read_brain(h) \/ send_command(h))
    /\ WF_vars(shutdown_steps)

\* ---------------------------------------------------------------- C37

\* A handler stands at `brain.read().await` while the run loop is active.
SubmittedWhileRunning(h) == handlers[h].at = "await_read" /\ run_task = "running"

\* C37: a user message submitted through POST /api/message or the TUI input
\* line while the run loop is active is placed on the command queue without
\* the handler waiting for the run loop to end: whenever a handler asks for
\* the agent while the loop runs, the lock lets it through.
C37_FrontEndDoesNotWaitForRun ==
    \A h \in Handlers : SubmittedWhileRunning(h) => read_ready

\* ---------------------------------------------------------------- C38

ShutdownWhileRunning == shutdown = "await_read" /\ run_task = "running"
StoppedAndExited == shutdown = "done" /\ run_task \in {"exited", "panicked"}

\* C38: when the web server receives the shutdown signal while the agent is
\* running, the shutdown handler eventually sends Stop to the agent and the
\* agent's run loop eventually exits.
C38_ShutdownStopsRun == ShutdownWhileRunning ~> StoppedAndExited

\* ------------------------------------------ the inbox and the voice outside

IGNORE_FILES == {"memory_stream.jsonl", "identity.json"}
INTERNAL_ROOT_FILES == {"projects.md"}

\* `f.contains(std::path::MAIN_SEPARATOR)`, over the files above.
in_subdirectory(f) == f = "logs/day.md"

\* Brain::scan_env_files: every file under env_path but the ignored names (no
\* file above has a name with a leading dot).
scan_env_files(files) == {f \in files : f \notin IGNORE_FILES}

\* run(), before the loop: files in subdirectories and the internal root files
\* count as seen.
seen_at_start(files) ==
    {f \in scan_env_files(files) : in_subdirectory(f) \/ f \in INTERNAL_ROOT_FILES}

\* build_input, its last item: the inbox text when files are pending, else
\* the voice from outside when a user message is stored, else the nudge.
build_input(msg, pending) ==
    IF pending # {}
    THEN [voice |-> <<>>, inbox |-> pending]
    ELSE [voice |-> IF msg = None THEN <<>> ELSE << msg >>, inbox |-> {}]

\* What the steps below leave alone.
outsideVars ==
    << provider, running, state, focus_mode, latest_snapshot, rendezvousVars,
       thought_count, memVars, events, timer, statuses, sends, thinkVars,
       failed, streamVars, channelVars, shellVars, adapterVars, researchVars,
       transcriptVars, moveVars, frontVars >>

\* The owner puts a file into the agent's directory.
owner_places ==
    /\ pc # "done"
    /\ \E f \in OwnerFiles \ env_files : env_files' = env_files \cup {f}
    /\ UNCHANGED << pc, queue, user_message, applied, cycle, cycles_since_plan,
                    seen_env_files, inbox_pending, pre_tool_files, first_prompt,
                    alerted, shown, outsideVars >>

\* The drain found the channel empty: check_new_files, the Alert broadcast,
\* and think_once up to its first request (build_input, then the stored user
\* message is cleared).
cycle_start ==
    /\ pc = "drain"
    /\ queue = <<>>
    /\ cycle < MaxCycles
    /\ LET current == scan_env_files(env_files)
           new_paths == current \ seen_env_files
           pending == IF new_paths # {} THEN new_paths ELSE inbox_pending
           prompt == build_input(user_message, pending)
       IN  /\ seen_env_files' = current
           /\ inbox_pending' = pending
           /\ alerted' = [f \in Files |->
                            IF f \in new_paths THEN alerted[f] + 1 ELSE alerted[f]]
           /\ first_prompt' = prompt
           /\ shown' = [f \in Files |->
                            IF f \in prompt.inbox THEN shown[f] + 1 ELSE shown[f]]
    /\ user_message' = None
    /\ applied' = <<>>
    /\ cycle' = cycle + 1
    /\ pc' = "think"
    /\ UNCHANGED << queue, cycles_since_plan, env_files, pre_tool_files,
                    outsideVars >>

\* A tool call of the cycle begins: `let pre_tool_files = self.scan_env_files()`.
tool_begin ==
    /\ pc = "think"
    /\ pre_tool_files' = scan_env_files(env_files)
    /\ pc' = "tool"
    /\ UNCHANGED << queue, user_message, applied, cycle, cycles_since_plan,
                    env_files, seen_env_files, inbox_pending, first_prompt,
                    alerted, shown, outsideVars >>

\* The tool call ends, having written a file or not: every file the scan
\* finds now and did not find before the call is marked seen.
tool_end ==
    /\ pc = "tool"
    /\ \E made \in SUBSET ToolFiles :
        /\ env_files' = env_files \cup made
        /\ seen_env_files' =
               seen_env_files \cup (scan_env_files(env_files') \ pre_tool_files)
    /\ pre_tool_files' = {}
    /\ pc' = "after_tools"
    /\ UNCHANGED << queue, user_message, applied, cycle, cycles_since_plan,
                    inbox_pending, first_prompt, alerted, shown, outsideVars >>

\* think_once returns (its closing thought may go into the memory stream,
\* whose ledger is then written) and run() clears the inbox.
think_end ==
    /\ pc \in {"think", "after_tools"}
    /\ \E added \in BOOLEAN :
        env_files' = IF added THEN env_files \cup StreamFiles ELSE env_files
    /\ inbox_pending' = {}
    /\ pc' = "plan_check"
    /\ UNCHANGED << queue, user_message, applied, cycle, cycles_since_plan,
                    seen_env_files, pre_tool_files, first_prompt, alerted, shown,
                    outsideVars >>

\* `self.cycles_since_plan += 1; if self.cycles_since_plan >= PLAN_INTERVAL
\* { self.plan().await }`: a plan with text writes projects.md and the daily
\* log, resets the counter and takes a fresh scan as the seen files; an empty
\* plan and a failed call change nothing. The loop goes back to the drain.
plan_step ==
    /\ pc = "plan_check"
    /\ IF cycles_since_plan + 1 >= PLAN_INTERVAL
       THEN \E outcome \in {"plan", "empty", "err"} :
               IF outcome = "plan"
               THEN /\ env_files' = env_files \cup PlanFiles
                    /\ seen_env_files' = scan_env_files(env_files')
                    /\ cycles_since_plan' = 0
               ELSE /\ cycles_since_plan' = cycles_since_plan + 1
                    /\ UNCHANGED << env_files, seen_env_files >>
       ELSE /\ cycles_since_plan' = cycles_since_plan + 1
            /\ UNCHANGED << env_files, seen_env_files >>
    /\ pc' = "drain"
    /\ UNCHANGED << queue, user_message, applied, cycle, inbox_pending,
                    pre_tool_files, first_prompt, alerted, shown, outsideVars >>

\* The directory holds the identity file and what the planning of an earlier
\* run left; run() has made its first scan.
InitInbox ==
    /\ InitTask
    /\ provider = "custom"
    /\ InitStores
    /\ InitNoResearch
    /\ InitNoTranscript
    /\ InitNoMove
    /\ InitNoFront
    /\ \E earlier \in {{}, PlanFiles} : env_files = IdentityFiles \cup earlier
    /\ seen_env_files = seen_at_start(env_files)
    /\ inbox_pending = {}
    /\ pre_tool_files = {}
    /\ first_prompt = NoPrompt
    /\ alerted = [f \in Files |-> 0]
    /\ shown = [f \in Files |-> 0]

NextInbox ==
    \/ Send
    \/ DrainCmd
    \/ owner_places
    \/ cycle_start
    \/ tool_begin
    \/ tool_end
    \/ think_end
    \/ plan_step

SpecInbox == InitInbox /\ [][NextInbox]_vars

\* ---------------------------------------------------------------- C39

\* The step from the drain into the think phase, by which the first request
\* of the cycle is built.
FirstRequestBuilt == pc = "drain" /\ pc' = "think"

\* The texts of the UserMessage commands among the drained commands, in order.
RECURSIVE UserTextsOf(_)
UserTextsOf(cmds) ==
    IF cmds = <<>> THEN <<>>
    ELSE IF Head(cmds).kind = "UserMessage"
    THEN << Head(cmds).arg >> \o UserTextsOf(Tail(cmds))
    ELSE UserTextsOf(Tail(cmds))

\* C39: every UserMessage drained at the start of a cycle is presented in the
\* cycle's first request as the voice from outside, once, and is then
\* cleared; none is dropped unpresented, also when several are drained
\* together or when new inbox files are pending in the same cycle.
C39_EveryUserMessagePresented ==
    [][FirstRequestBuilt =>
            /\ first_prompt'.voice = UserTextsOf(applied)
            /\ user_message' = None]_vars

\* ---------------------------------------------------------------- C40

\* At a cycle start every file the owner has placed has had its one alert and
\* its one inbox prompt, now or at an earlier cycle start.
OwnerFilesAlerted ==
    FirstRequestBuilt =>
        \A f \in OwnerFiles \cap env_files : alerted'[f] = 1 /\ shown'[f] = 1

\* C40: every file the owner places while the agent runs triggers exactly one
\* alert and appears in the inbox override of exactly one prompt, at the next
\* cycle start, whenever in the cycle it appears; files the agent's tool
\* calls or planning create never trigger an alert.
C40_OwnerFilesAlertOnce ==
    /\ [][OwnerFilesAlerted]_vars
    /\ [](\A f \in Files : alerted[f] <= 1 /\ shown[f] <= 1)
    /\ [](\A f \in AgentFiles : alerted[f] = 0 /\ shown[f] = 0)

====
